---- MODULE Spec2Model ----
(***************************************************************************)
(* Model of the deploy_tool pipeline orchestrator (commands/full_deploy.py *)
(* run_command_logic), the infrastructure step (core/terraform.py), the    *)
(* monitoring provisioner (core/ec2_provision.py), the deployment ledger   *)
(* (core/history_manager.py) and the revision rollback engine              *)
(* (core/rollback.py).                                                     *)
(*                                                                         *)
(* External collaborators (git, docker, terraform, ssh, the ECS API) are   *)
(* modelled by their outcome: every call nondeterministically succeeds or  *)
(* fails in each of the ways the calling code distinguishes.               *)
(***************************************************************************)
EXTENDS Integers, Sequences, FiniteSets, TLC

\* ---------------------------------------------------------------- bounds
MaxRetries == 3      \* largest value passed as --retries
MaxRuns == 2         \* number of `run` invocations in one behaviour
MaxRevisions == 4    \* number of task-definition revisions ever registered
MaxRecords == 3      \* number of records a ledger file grows to
MaxInfraRetries == 2 \* largest --retries of a run followed by `rollback`
MaxCommands == 2     \* number of `rollback` invocations in one behaviour
MaxTermRetries == 2  \* largest --retries of the run followed to its end
MaxBuilds == 2       \* number of build_docker_image calls in one behaviour
MaxPushes == 2       \* number of push_to_ecr invocations in one behaviour

\* ----------------------------------------------------------------- state
VARIABLES
  pc,            \* position of run_command_logic
  runs,          \* number of `run` invocations started so far
  max_retries,   \* the --retries option of the current run
  attempt,       \* loop variable of the current retry loop
  clone_exists,  \* clone_path.exists()
  fetch_ops,     \* source-collaborator calls made by step 1 of this run
  log,           \* stage attempts and compensations of this run, in order
  image_uri,     \* local of run_command_logic ("None" until push returns)
  public_url,    \* local of run_command_logic ("None", "" or the endpoint)
  ec2_ip,        \* local of run_command_logic ("None" or the host address)
  exit_code,     \* process exit code of the run (-1 while running)
  abort_stage,   \* the step whose typer.Exit(code=1) ended the run
  appGroup,      \* ResourceGroup behind <project>/ecs-app.tfstate
  monGroup,      \* ResourceGroup behind <project>/ec2-monitor.tfstate
  temp_dirs,     \* temporary directories this run created and left on disk
  tf_calls,      \* the terraform invocations of the last run and of the
                 \* last rollback command: call site, project, state key
  history_file,  \* workspace/<project>/deployments_history.json
  history0,      \* number of ledger records when the current run started
  rb_pc,         \* position of rollback_ecs_service
  arns,          \* task-definition revisions of the family, newest first
  active_rev,    \* the service's taskDefinition
  current_task_arn,   \* local of rollback_ecs_service (0 = unset)
  previous_task_arn,  \* local of rollback_ecs_service (0 = unset)
  active0,       \* the service's taskDefinition when rollback was called
  update_calls,  \* update_service calls issued by the current rollback
  wait_calls,    \* waiter.wait calls issued by the current rollback
  wait_outcome,  \* what the services_stable waiter did ("none" = not run)
  rb_error,      \* the exception rollback_ecs_service raised ("none")
  rb_result,     \* the pair rollback_ecs_service returned (<<>> = none)
  ld_op,         \* the last ledger operation ("none", "append", "history",
                 \* "cleanup")
  ld_record,     \* the record handed to the last append (NoRecord = none)
  ld_before,     \* what load_history returned before the last operation
  ld_raised,     \* the last ledger operation ended in an uncaught exception
  ld_save_failed, \* the last save_history swallowed a write error
  rc_state,      \* remote configuration: "Provisioned", "Connecting",
                 \* "Configuring", "Ready", "Failed"
  ssh_client,    \* the paramiko client: "none", "created", "connected",
                 \* "closed"
  ssh_attempts,  \* connection attempts made
  ssh_waited,    \* seconds slept between connection attempts
  ssh_last,      \* outcome of the last connection attempt ("none" = none)
  rc_action,     \* index of the configuration action in progress
  rc_cmd,        \* commands of the current batch that have completed
  rc_executed,   \* the commands run on the host, in order, as <<action, cmd>>
  rc_last,       \* exit status and error stream of the last command run
  rc_error,      \* the exception that ended the configuration
  rc_temp,       \* the temporary remote path of the file being deployed:
                 \* "none", "partial", "complete"
  rc_final,      \* content of the final paths written so far, by file
                 \* action: "partial" or "new" (no entry = old content)
  rc_services,   \* the running services, each with the file actions whose
                 \* content was in place when it was last (re)started
  dc_args,       \* arguments of the last `rollback` command: project, target
  dc_exit,       \* its exit code (-1 = no such command yet)
  dc_before,     \* <<appGroup, monGroup>> when it started
  dc_init_ok,    \* every terraform init it ran succeeded
  dc_count,      \* number of `rollback` commands invoked so far
  detected_project_name, \* project_name returned by detect_framework
  \* push_to_ecr, step by step
  ec_pc,         \* position in push_to_ecr
  ec_repo,       \* the registry holds a repository named repo_name
  ec_calls,      \* registry API calls of this invocation, in order
  ec_described,  \* answer of the existence check
  ec_conflict,   \* create_repository was answered "already exists"
  ec_failed_at,  \* the step that ended the invocation, or "none"
  ec_result,     \* "none", "ok", "exit1" (typer.Exit) or "raised"
  ec_pushes,     \* number of invocations so far
  \* the ledger files of several projects
  lg_files,      \* path of a ledger file -> the file
  lg_dirs,       \* the project directories that exist under workspace/
  lg_op,         \* the last history_manager call: [op, project]
  lg_before,     \* project -> what load_history returned before that call
  \* two `run` processes sharing the terraform directory of the package
  cc_pc,         \* process -> its position in steps 5 and 6
  tfvars_json,   \* content of TF_BASE_DIR/terraform.tfvars.json
  backend_key,   \* state key configured in TF_BASE_DIR/.terraform
  cc_planned,    \* process -> variables and key its terraform plan read
  cc_applied,    \* process -> variables and key its terraform apply used
  \* build_docker_image, step by step
  bd_pc,         \* position in build_docker_image
  bd_framework,  \* its framework argument
  bd_dockerfile, \* content of project_path/Dockerfile
  bd_before,     \* that content when the call started
  bd_pending,    \* how the try block ended, while the finally block runs
  bd_result,     \* "none", "ok", "exit1" (typer.Exit) or "raised"
  bd_builds      \* number of calls so far

runVars == <<pc, runs, max_retries, attempt, clone_exists, fetch_ops, log,
             image_uri, public_url, ec2_ip, exit_code, abort_stage,
             appGroup, monGroup, temp_dirs, tf_calls, history_file, history0>>

rbVars == <<rb_pc, arns, active_rev, current_task_arn, previous_task_arn,
            active0, update_calls, wait_calls, wait_outcome, rb_error,
            rb_result>>

nmVars == <<detected_project_name>>

ecVars == <<ec_pc, ec_repo, ec_calls, ec_described, ec_conflict,
            ec_failed_at, ec_result, ec_pushes>>

lgVars == <<lg_files, lg_dirs, lg_op, lg_before>>

ccVars == <<cc_pc, tfvars_json, backend_key, cc_planned, cc_applied>>

bdVars == <<bd_pc, bd_framework, bd_dockerfile, bd_before, bd_pending,
            bd_result, bd_builds>>

xtVars == <<lgVars, ccVars, bdVars>>

ldVars == <<ld_op, ld_record, ld_before, ld_raised, ld_save_failed>>

rcVars == <<rc_state, ssh_client, ssh_attempts, ssh_waited, ssh_last,
            rc_action, rc_cmd, rc_executed, rc_last, rc_error, rc_temp,
            rc_final, rc_services>>

dcVars == <<dc_args, dc_exit, dc_before, dc_init_ok, dc_count>>

vars == <<runVars, rbVars, ldVars, rcVars, dcVars, nmVars, ecVars, xtVars>>

\* The six stages in declared order.
StageOrder == <<"fetch", "detect", "build", "push", "apply", "monitor">>

\* One entry of the run's log: an attempt of a stage or a compensating
\* destroy issued by a stage, whether the orchestrator saw it succeed, and
\* the collaborator's outcome.
Entry(stage, op, ok, outcome) ==
  [stage |-> stage, op |-> op, ok |-> ok, outcome |-> outcome]

\* Outcome of a collaborator call that only succeeds or fails.
Plain(ok) == IF ok THEN "ok" ELSE "failed"

\* What the orchestrator can tell about an attempt: an exception reaches
\* its except clause as such, whatever raised it.
Seen(raised, o) == IF raised THEN "raised" ELSE o

\* ------------------------------------------------------ deployment ledger
\* A file is [state, records]: "missing", "corrupt" (not JSON), "not_list"
\* (JSON whose top-level value is not a list, e.g. {"a": 1}) or "ok" (a JSON
\* list, whose elements are `records`).
\* A Python value load_history can return: a list with its items, or the
\* non-list value json.load produced.
PyList(items) == [is_list |-> TRUE, items |-> items]
PyNotList == [is_list |-> FALSE, items |-> <<>>]

\* load_history: a missing file, a JSONDecodeError and any other exception
\* give the empty list; otherwise whatever json.load returns.
load_history(file) ==
  IF file.state = "ok" THEN PyList(file.records)
  ELSE IF file.state = "not_list" THEN PyNotList
  ELSE PyList(<<>>)

\* save_history: rewrites the whole file; a failing write is only echoed.
save_history(file, history_data, write_ok) ==
  IF write_ok THEN [state |-> "ok", records |-> history_data] ELSE file

\* history.append(record) raises AttributeError when load_history returned
\* something that is not a list.
append_raises(file) == ~load_history(file).is_list

\* add_deployment_record: load, append in memory, rewrite; the file as it
\* is afterwards (untouched when append raised).
add_deployment_record(file, record, write_ok) ==
  IF append_raises(file) THEN file
  ELSE save_history(file, Append(load_history(file).items, record), write_ok)

\* The record run_command_logic builds on its success path.
deployment_record ==
  [image_uri |-> image_uri,
   public_app_url |-> public_url,
   monitor_ec2_ip |-> IF ec2_ip /= "None" THEN ec2_ip ELSE "N/A"]

\* --------------------------------------------------- infrastructure step
\* State of a group after a terraform apply that exited non-zero: nothing
\* changed, or some of the resources were created.
AfterFailedApply(g) == {g, "partial"}

\* State of a group after destroy_terraform raised: init failed (nothing
\* changed) or the destroy stopped half way.
AfterFailedDestroy(g) == IF g = "absent" THEN {"absent"} ELSE {g, "partial"}

\* Project names are strings: sequences of characters.  The names of the
\* directory holding package.json, and the names detect_framework returns
\* for them: "mayur-" + project_dir.name.
DirNames == {<<"a", "b">>, <<"A", "_", "b">>}
ProjectNames == {<<"m", "a", "y", "u", "r", "-">> \o d : d \in DirNames}

\* str.lower() and str.replace("_", "-"), character by character.
Lower(c) == IF c = "A" THEN "a" ELSE IF c = "B" THEN "b" ELSE c
ReplaceUnderscore(c) == IF c = "_" THEN "-" ELSE c

\* safe_name = project_name.lower().replace("_", "-"): the name `run`
\* passes to every terraform call.
SafeNameOf(project_name) ==
  [i \in DOMAIN project_name |-> ReplaceUnderscore(Lower(project_name[i]))]
safe_name == SafeNameOf(detected_project_name)

\* The names a user passes to the `rollback` command: the name `run`
\* announced and the name it derived.
Projects == {detected_project_name, safe_name}

\* The key of the remote state a terraform init selects:
\* -backend-config=key={project_name}/{suffix}.
state_key_default(project_name, tfstate_key_suffix) ==
  <<"default-project", tfstate_key_suffix>>
state_key(project_name, tfstate_key_suffix) ==
  <<project_name, tfstate_key_suffix>>

\* The keys written into apply_terraform and provision_ec2.
apply_key(project_name) == state_key(project_name, "ecs-app.tfstate")
provision_key(project_name) == state_key(project_name, "ec2-monitor.tfstate")

\* The tfstate_key_suffix arguments of the two compensating destroys of
\* run_command_logic.
compensate_app_suffix == "ecs-app.tfstate"
compensate_monitor_suffix_app == "ecs-app.tfstate"
compensate_monitor_suffix == "ec2-monitor.tfstate"

\* One terraform invocation: the call site, the project name the command
\* was invoked for and the state key it selected.
Call(site, project_name, key) ==
  [site |-> site, project |-> project_name, key |-> key]

\* The group of the run's project whose state is stored under a key
\* ("other": the key of another project, or of no group).
GroupAt(key) ==
  IF key = <<safe_name, "ecs-app.tfstate">> THEN "app"
  ELSE IF key = <<safe_name, "ec2-monitor.tfstate">> THEN "mon"
  ELSE "other"

\* State of the group stored under a key; nothing was ever applied under
\* the keys of other projects.
GroupState(key, app, mon) ==
  IF GroupAt(key) = "app" THEN app
  ELSE IF GroupAt(key) = "mon" THEN mon
  ELSE "absent"

\* <<app, mon>> with the group stored under key set to x.
SetGroup(key, app, mon, x) ==
  IF GroupAt(key) = "app" THEN <<x, mon>>
  ELSE IF GroupAt(key) = "mon" THEN <<app, x>>
  ELSE <<app, mon>>

\* Exit statuses of `terraform destroy -auto-approve` on a group in state
\* g: with nothing in the state there is nothing to destroy and it exits 0.
TerraformDestroyExits(g) == IF g = "absent" THEN {0} ELSE {0, 1}

\* destroy_terraform: terraform init with the state key, then terraform
\* destroy; a non-zero exit of either raises typer.Exit(code=1).  The
\* possible results: whether it raised, whether init succeeded, and the
\* groups <<app, mon>> afterwards.
destroy_terraform(project_name, tfstate_key_suffix, app, mon) ==
  LET key == state_key(project_name, tfstate_key_suffix)
      g == GroupState(key, app, mon)
  IN {[raised |-> TRUE, init_ok |-> FALSE, groups |-> <<app, mon>>]}
     \cup
     {[raised |-> FALSE, init_ok |-> TRUE,
       groups |-> SetGroup(key, app, mon, "absent")]
        : e \in TerraformDestroyExits(g) \cap {0}}
     \cup
     {[raised |-> TRUE, init_ok |-> TRUE,
       groups |-> SetGroup(key, app, mon, x)]
        : x \in IF 1 \in TerraformDestroyExits(g)
                THEN AfterFailedDestroy(g) ELSE {}}

\* Outcomes of one pass through the try body of step 6:
\* apply_terraform (init, plan, apply) followed by get_terraform_output.
ApplyOutcomes ==
  {"init_failed", "plan_failed", "apply_failed", "output_raised",
   "output_empty", "ok"}

\* The outcomes of step 6 that reach the except clause of the loop.
ApplyRaises(o) ==
  o \in {"init_failed", "plan_failed", "apply_failed", "output_raised"}

\* Outcomes of one call of provision_ec2.
MonitorOutcomes ==
  {"copy_failed", "init_failed", "apply_failed", "output_failed",
   "json_invalid", "outputs_missing",
   "auth_failed", "ssh_exhausted", "command_failed", "move_failed",
   "ready"}

\* The outcomes of provision_ec2 that propagate an exception to the caller:
\* the copy made before the try block, and terraform's CalledProcessError
\* (re-raised as typer.Exit).
MonitorRaises(o) ==
  o \in {"copy_failed", "init_failed", "apply_failed", "output_failed"}

\* The outcomes in which remote configuration of the host failed.
RemoteConfigFailed(o) ==
  o \in {"auth_failed", "ssh_exhausted", "command_failed", "move_failed"}

\* ------------------------------------------------------------------ Init
\* No `run` has been invoked: a fresh workspace and no infrastructure.
RunIdle ==
  /\ pc = "idle"
  /\ runs = 0
  /\ max_retries = 0
  /\ attempt = 0
  /\ clone_exists = FALSE
  /\ fetch_ops = <<>>
  /\ log = <<>>
  /\ image_uri = "None"
  /\ public_url = "None"
  /\ ec2_ip = "None"
  /\ exit_code = -1
  /\ abort_stage = "none"
  /\ appGroup = "absent"
  /\ monGroup = "absent"
  /\ temp_dirs = 0
  /\ tf_calls = {}
  /\ history0 = 0

\* No call of rollback_ecs_service has been made.
RollbackIdle ==
  /\ rb_pc = "idle"
  /\ current_task_arn = 0
  /\ previous_task_arn = 0
  /\ active0 = active_rev
  /\ update_calls = 0
  /\ wait_calls = 0
  /\ wait_outcome = "none"
  /\ rb_error = "none"
  /\ rb_result = <<>>

\* The value of ld_record while no record has been handed to append.
NoRecord ==
  [image_uri |-> "None", public_app_url |-> "None", monitor_ec2_ip |-> "None"]

\* No ledger operation has been made.
LedgerIdle ==
  /\ ld_op = "none"
  /\ ld_record = NoRecord
  /\ ld_before = PyList(<<>>)
  /\ ld_raised = FALSE
  /\ ld_save_failed = FALSE

\* No command has been run on the host yet.
NoCommand == [at |-> <<0, 0>>, exit_status |-> 0, stderr |-> "",
              stderr_echoed |-> FALSE]

\* No exception has ended the configuration.
NoError == [kind |-> "none", at |-> <<0, 0>>]

\* The monitoring host is up and terraform has reported its address and
\* key path; no SSH client exists yet.
RemoteIdle ==
  /\ rc_state = "Provisioned"
  /\ ssh_client = "none"
  /\ ssh_attempts = 0
  /\ ssh_waited = 0
  /\ ssh_last = "none"
  /\ rc_action = 1
  /\ rc_cmd = 0
  /\ rc_executed = <<>>
  /\ rc_last = NoCommand
  /\ rc_error = NoError
  /\ rc_temp = "none"
  /\ rc_final = <<>>
  /\ rc_services = <<>>

\* No `rollback` command has been invoked.
DestroyIdle ==
  /\ dc_args = [project |-> <<>>, target |-> "none"]
  /\ dc_exit = -1
  /\ dc_before = <<"absent", "absent">>
  /\ dc_init_ok = TRUE
  /\ dc_count = 0

\* push_to_ecr has not been called and the repository does not exist.
PushIdle ==
  /\ ec_pc = "idle"
  /\ ec_repo = FALSE
  /\ ec_calls = <<>>
  /\ ec_described = "none"
  /\ ec_conflict = FALSE
  /\ ec_failed_at = "none"
  /\ ec_result = "none"
  /\ ec_pushes = 0

\* The ledger file of a fresh workspace.
MissingFile == [state |-> "missing", records |-> <<>>]

\* The projects whose ledgers are looked at: the names detect_framework
\* returns and the names `run` derives from them.
LedgerProjects == ProjectNames \cup {SafeNameOf(n) : n \in ProjectNames}

\* _get_history_file_path: workspace/<project_name>/deployments_history.json
\* (the directory is created on the way).
history_file_path_shared(project_name) ==
  <<"workspace", "deployments_history.json">>
history_file_path(project_name) ==
  <<"workspace", project_name, "deployments_history.json">>

\* The ledger paths of the projects.
LedgerPaths == {history_file_path(p) : p \in LedgerProjects}

\* What load_history returns for every project.
LoadAll(files) ==
  [q \in LedgerProjects |-> load_history(files[history_file_path(q)])]

\* No history_manager call has been made in a fresh workspace.
LedgersIdle ==
  /\ lg_files = [f \in LedgerPaths |-> MissingFile]
  /\ lg_dirs = {}
  /\ lg_op = [op |-> "none", project |-> <<>>]
  /\ lg_before = LoadAll(lg_files)

\* The two processes and the project each of them deploys.
Procs == {"A", "B"}
ProcProject(proc) ==
  IF proc = "A" THEN <<"m", "a", "y", "u", "r", "-", "a", "b">>
  ELSE <<"m", "a", "y", "u", "r", "-", "A", "_", "b">>

\* Nothing written, configured, planned or applied.
NoVars == [project_name |-> <<>>, image_url |-> <<>>]
NoKey == <<>>
NoUse == [vars |-> NoVars, key |-> NoKey]

\* Neither process has reached step 5.
ConcurrentIdle ==
  /\ cc_pc = [proc \in Procs |-> "tfvars"]
  /\ tfvars_json = NoVars
  /\ backend_key = NoKey
  /\ cc_planned = [proc \in Procs |-> NoUse]
  /\ cc_applied = [proc \in Procs |-> NoUse]

\* build_docker_image has not been called; the repository has no
\* Dockerfile of its own.
BuildIdle ==
  /\ bd_pc = "idle"
  /\ bd_framework = "none"
  /\ bd_dockerfile = "absent"
  /\ bd_before = "absent"
  /\ bd_pending = "none"
  /\ bd_result = "none"
  /\ bd_builds = 0

Init ==
  /\ RunIdle
  /\ history_file = MissingFile
  /\ arns = <<1>>
  /\ active_rev = 1
  /\ RollbackIdle
  /\ LedgerIdle
  /\ RemoteIdle
  /\ DestroyIdle
  /\ detected_project_name \in ProjectNames
  /\ PushIdle
  /\ LedgersIdle
  /\ ConcurrentIdle
  /\ BuildIdle

\* ------------------------------------------------- pipeline orchestrator
\* raise typer.Exit(code=1) from the step named `stage`.
Abort(stage) ==
  /\ pc' = "done"
  /\ exit_code' = 1
  /\ abort_stage' = stage

\* Invocation of `run` with some --retries value.
RunStart ==
  /\ pc \in {"idle", "done"}
  /\ runs < MaxRuns
  /\ \E n \in 0..MaxRetries : max_retries' = n
  /\ runs' = runs + 1
  /\ pc' = "fetch"
  /\ attempt' = 0
  /\ fetch_ops' = <<>>
  /\ log' = <<>>
  /\ image_uri' = "None"
  /\ public_url' = "None"
  /\ ec2_ip' = "None"
  /\ exit_code' = -1
  /\ abort_stage' = "none"
  /\ temp_dirs' = 0
  /\ tf_calls' = {}
  /\ history0' = Len(load_history(history_file).items)
  /\ UNCHANGED <<clone_exists, appGroup, monGroup, history_file>>
  /\ UNCHANGED <<rbVars, ldVars, rcVars, dcVars, nmVars, ecVars, xtVars>>

\* The operations step 1 performs: with a checkout, pull, and after a
\* failed pull remove the checkout and clone; without one, clone.
FetchPlanNoFallback(exists, pull_ok) ==
  IF exists THEN <<"pull">> ELSE <<"clone">>
FetchPlan(exists, pull_ok) ==
  IF exists
  THEN IF pull_ok THEN <<"pull">> ELSE <<"pull", "rmtree", "clone">>
  ELSE <<"clone">>

\* Step 1: pull an existing checkout, falling back to a fresh clone, or
\* clone when there is no checkout.  No retry loop.
FetchSource ==
  /\ pc = "fetch"
  /\ \E pull_ok, clone_ok \in BOOLEAN :
       LET ops == FetchPlan(clone_exists, pull_ok)
           ok == IF ops[Len(ops)] = "pull" THEN pull_ok ELSE clone_ok
       IN /\ fetch_ops' = ops
          /\ clone_exists' = ok
          /\ log' = Append(log, Entry("fetch", "attempt", ok, Plain(ok)))
          /\ IF ok
             THEN pc' = "detect" /\ UNCHANGED <<exit_code, abort_stage>>
             ELSE Abort("fetch")
  /\ UNCHANGED <<runs, max_retries, attempt, image_uri, public_url, ec2_ip,
                 appGroup, monGroup, temp_dirs, tf_calls, history_file, history0>>
  /\ UNCHANGED <<rbVars, ldVars, rcVars, dcVars, nmVars, ecVars, xtVars>>

\* Step 2: detect_framework; an exception aborts the run.
DetectFramework ==
  /\ pc = "detect"
  /\ \E ok \in BOOLEAN :
       /\ log' = Append(log, Entry("detect", "attempt", ok, Plain(ok)))
       /\ IF ok
          THEN pc' = "build" /\ UNCHANGED <<exit_code, abort_stage>>
          ELSE Abort("detect")
  /\ attempt' = 0
  /\ UNCHANGED <<runs, max_retries, clone_exists, fetch_ops, image_uri,
                 public_url, ec2_ip, appGroup, monGroup, temp_dirs, tf_calls,
                 history_file, history0>>
  /\ UNCHANGED <<rbVars, ldVars, rcVars, dcVars, nmVars, ecVars, xtVars>>

\* `if attempt < max_retries - 1` of the build loop.
BuildRetryOffByOne(a) == a < max_retries
BuildRetryAllowed(a) == a < max_retries - 1

\* Step 3: one iteration of `for attempt in range(max_retries)`.
BuildAttempt ==
  /\ pc = "build"
  /\ attempt < max_retries
  /\ \E ok \in BOOLEAN :
       /\ log' = Append(log, Entry("build", "attempt", ok, Plain(ok)))
       /\ IF ok
          THEN /\ pc' = "push"
               /\ attempt' = 0
               /\ UNCHANGED <<exit_code, abort_stage>>
          ELSE IF BuildRetryAllowed(attempt)
               THEN /\ attempt' = attempt + 1
                    /\ UNCHANGED <<pc, exit_code, abort_stage>>
               ELSE /\ Abort("build")
                    /\ UNCHANGED attempt
  /\ UNCHANGED <<runs, max_retries, clone_exists, fetch_ops, image_uri,
                 public_url, ec2_ip, appGroup, monGroup, temp_dirs, tf_calls,
                 history_file, history0>>
  /\ UNCHANGED <<rbVars, ldVars, rcVars, dcVars, nmVars, ecVars, xtVars>>

\* Step 3: range(max_retries) is exhausted without break or raise.
BuildLoopEnd ==
  /\ pc = "build"
  /\ attempt >= max_retries
  /\ pc' = "push"
  /\ attempt' = 0
  /\ UNCHANGED <<runs, max_retries, clone_exists, fetch_ops, log, image_uri,
                 public_url, ec2_ip, exit_code, abort_stage, appGroup,
                 monGroup, temp_dirs, tf_calls, history_file, history0>>
  /\ UNCHANGED <<rbVars, ldVars, rcVars, dcVars, nmVars, ecVars, xtVars>>

\* Step 4: push_to_ecr, called once.
PushImage ==
  /\ pc = "push"
  /\ \E ok \in BOOLEAN :
       /\ log' = Append(log, Entry("push", "attempt", ok, Plain(ok)))
       /\ IF ok
          THEN /\ image_uri' = "repo:tag"
               /\ pc' = "tfvars"
               /\ UNCHANGED <<exit_code, abort_stage>>
          ELSE /\ Abort("push")
               /\ UNCHANGED image_uri
  /\ UNCHANGED <<runs, max_retries, attempt, clone_exists, fetch_ops,
                 public_url, ec2_ip, appGroup, monGroup, temp_dirs, tf_calls,
                 history_file, history0>>
  /\ UNCHANGED <<rbVars, ldVars, rcVars, dcVars, nmVars, ecVars, xtVars>>

\* Step 5: write_tfvars.
WriteTfvars ==
  /\ pc = "tfvars"
  /\ \E ok \in BOOLEAN :
       IF ok
       THEN pc' = "apply" /\ UNCHANGED <<exit_code, abort_stage>>
       ELSE Abort("tfvars")
  /\ attempt' = 0
  /\ UNCHANGED <<runs, max_retries, clone_exists, fetch_ops, log, image_uri,
                 public_url, ec2_ip, appGroup, monGroup, temp_dirs, tf_calls,
                 history_file, history0>>
  /\ UNCHANGED <<rbVars, ldVars, rcVars, dcVars, nmVars, ecVars, xtVars>>

\* Python truthiness of a string-or-None local.
Truthy(s) == s \notin {"None", ""}

\* State of the application group after one pass through the try body of
\* step 6 with outcome o.
AppAfterApply(o, g) ==
  IF o \in {"init_failed", "plan_failed"} THEN {g}
  ELSE IF o = "apply_failed" THEN AfterFailedApply(g)
  ELSE {"provisioned"}

\* `if attempt < max_retries - 1` of the ECS apply loop.
ApplyRetryAllowed(a) == a < max_retries - 1

\* Step 6: one iteration of the apply loop: apply_terraform, then
\* get_terraform_output; an empty output is not an exception.
ApplyAttempt ==
  /\ pc = "apply"
  /\ attempt < max_retries
  /\ \E o \in ApplyOutcomes :
       /\ \E g \in AppAfterApply(o, appGroup) : appGroup' = g
       /\ log' = Append(log, Entry("apply", "attempt", ~ApplyRaises(o),
                                 Seen(ApplyRaises(o), o)))
       /\ tf_calls' = tf_calls \cup
                        {Call("apply", detected_project_name, apply_key(safe_name))}
       /\ IF ~ApplyRaises(o)
          THEN /\ public_url' = IF o = "ok" THEN "http://app" ELSE ""
               /\ pc' = "monitor"
               /\ UNCHANGED <<exit_code, abort_stage>>
          ELSE /\ UNCHANGED public_url
               /\ IF ApplyRetryAllowed(attempt)
                  THEN /\ pc' = "apply_destroy"
                       /\ UNCHANGED <<exit_code, abort_stage>>
                  ELSE Abort("apply")
  /\ UNCHANGED <<runs, max_retries, attempt, clone_exists, fetch_ops,
                 image_uri, ec2_ip, monGroup, temp_dirs, history_file,
                 history0>>
  /\ UNCHANGED <<rbVars, ldVars, rcVars, dcVars, nmVars, ecVars, xtVars>>

\* Step 6: destroy_terraform before a retry; its failure is only a warning.
CompensateApp ==
  /\ pc = "apply_destroy"
  /\ \E r \in destroy_terraform(safe_name, compensate_app_suffix,
                                 appGroup, monGroup) :
       /\ appGroup' = r.groups[1]
       /\ monGroup' = r.groups[2]
       /\ log' = Append(log, Entry("apply", "destroy", ~r.raised,
                                 Plain(~r.raised)))
  /\ tf_calls' = tf_calls \cup
                   {Call("compensate_app", detected_project_name,
                         state_key(safe_name, compensate_app_suffix))}
  /\ attempt' = attempt + 1
  /\ pc' = "apply"
  /\ UNCHANGED <<runs, max_retries, clone_exists, fetch_ops, image_uri,
                 public_url, ec2_ip, exit_code, abort_stage, temp_dirs,
                 history_file, history0>>
  /\ UNCHANGED <<rbVars, ldVars, rcVars, dcVars, nmVars, ecVars, xtVars>>

\* Step 6: range(max_retries) is exhausted without break or raise.
ApplyLoopEnd ==
  /\ pc = "apply"
  /\ attempt >= max_retries
  /\ pc' = "monitor"
  /\ UNCHANGED <<runs, max_retries, attempt, clone_exists, fetch_ops, log,
                 image_uri, public_url, ec2_ip, exit_code, abort_stage,
                 appGroup, monGroup, temp_dirs, tf_calls, history_file, history0>>
  /\ UNCHANGED <<rbVars, ldVars, rcVars, dcVars, nmVars, ecVars, xtVars>>

\* Step 7 starts its own loop: `for attempt in range(max_retries)`.
MonitorLoopStart ==
  /\ pc = "monitor"
  /\ pc' = "monitor_loop"
  /\ attempt' = 0
  /\ UNCHANGED <<runs, max_retries, clone_exists, fetch_ops, log,
                 image_uri, public_url, ec2_ip, exit_code, abort_stage,
                 appGroup, monGroup, temp_dirs, tf_calls, history_file, history0>>
  /\ UNCHANGED <<rbVars, ldVars, rcVars, dcVars, nmVars, ecVars, xtVars>>

\* State of the monitoring group after provision_ec2 ended with outcome o.
MonAfterProvision(o, g) ==
  IF o \in {"copy_failed", "init_failed"} THEN {g}
  ELSE IF o = "apply_failed" THEN AfterFailedApply(g)
  ELSE {"provisioned"}

\* What provision_ec2 returns when it does not raise: the host address
\* only when remote configuration ran to its end, None otherwise.
provision_ec2_result(o) == IF o = "ready" THEN "10.0.0.1" ELSE "None"

\* `if attempt < max_retries - 1` of the EC2 provisioning loop.
MonitorRetryAllowed(a) == a < max_retries - 1

\* Step 7: one iteration of the provisioning loop.  provision_ec2 creates a
\* temporary directory and never removes it.  A None result is echoed and
\* leaves the loop through `break`.
MonitorAttempt ==
  /\ pc = "monitor_loop"
  /\ attempt < max_retries
  /\ temp_dirs' = temp_dirs + 1
  /\ \E o \in MonitorOutcomes :
       /\ \E g \in MonAfterProvision(o, monGroup) : monGroup' = g
       /\ log' = Append(log, Entry("monitor", "attempt", o = "ready",
                                 Seen(MonitorRaises(o), o)))
       /\ tf_calls' = IF o = "copy_failed" THEN tf_calls
                      ELSE tf_calls \cup
                             {Call("provision", detected_project_name,
                                   provision_key(safe_name))}
       /\ IF ~MonitorRaises(o)
          THEN /\ ec2_ip' = provision_ec2_result(o)
               /\ pc' = "final"
               /\ UNCHANGED <<exit_code, abort_stage>>
          ELSE /\ UNCHANGED ec2_ip
               /\ IF MonitorRetryAllowed(attempt)
                  THEN /\ pc' = "monitor_destroy"
                       /\ UNCHANGED <<exit_code, abort_stage>>
                  ELSE Abort("monitor")
  /\ UNCHANGED <<runs, max_retries, attempt, clone_exists, fetch_ops,
                 image_uri, public_url, appGroup, history_file, history0>>
  /\ UNCHANGED <<rbVars, ldVars, rcVars, dcVars, nmVars, ecVars, xtVars>>

\* Step 7: destroy_terraform before a retry; its failure is only a warning.
CompensateMonitor ==
  /\ pc = "monitor_destroy"
  /\ \E r \in destroy_terraform(safe_name, compensate_monitor_suffix,
                                 appGroup, monGroup) :
       /\ appGroup' = r.groups[1]
       /\ monGroup' = r.groups[2]
       /\ log' = Append(log, Entry("monitor", "destroy", ~r.raised,
                                 Plain(~r.raised)))
  /\ tf_calls' = tf_calls \cup
                   {Call("compensate_monitor", detected_project_name,
                         state_key(safe_name, compensate_monitor_suffix))}
  /\ attempt' = attempt + 1
  /\ pc' = "monitor_loop"
  /\ UNCHANGED <<runs, max_retries, clone_exists, fetch_ops, image_uri,
                 public_url, ec2_ip, exit_code, abort_stage, temp_dirs,
                 history_file, history0>>
  /\ UNCHANGED <<rbVars, ldVars, rcVars, dcVars, nmVars, ecVars, xtVars>>

\* Step 7: range(max_retries) is exhausted without break or raise.
MonitorLoopEnd ==
  /\ pc = "monitor_loop"
  /\ attempt >= max_retries
  /\ pc' = "final"
  /\ UNCHANGED <<runs, max_retries, attempt, clone_exists, fetch_ops, log,
                 image_uri, public_url, ec2_ip, exit_code, abort_stage,
                 appGroup, monGroup, temp_dirs, tf_calls, history_file, history0>>
  /\ UNCHANGED <<rbVars, ldVars, rcVars, dcVars, nmVars, ecVars, xtVars>>

\* Final output: with a truthy public_url the record is added and the
\* command returns; otherwise typer.Exit(code=1).
FinalOutput ==
  /\ pc = "final"
  /\ IF Truthy(public_url)
     THEN /\ \E write_ok \in BOOLEAN :
               history_file' =
                 add_deployment_record(history_file, deployment_record,
                                       write_ok)
          /\ pc' = "done"
          /\ IF append_raises(history_file)
             THEN exit_code' = 1 /\ abort_stage' = "history"
             ELSE exit_code' = 0 /\ UNCHANGED abort_stage
     ELSE /\ Abort("final")
          /\ UNCHANGED history_file
  /\ UNCHANGED <<runs, max_retries, attempt, clone_exists, fetch_ops, log,
                 image_uri, public_url, ec2_ip, appGroup, monGroup,
                 temp_dirs, tf_calls, history0>>
  /\ UNCHANGED <<rbVars, ldVars, rcVars, dcVars, nmVars, ecVars, xtVars>>

Next ==
  \/ RunStart
  \/ FetchSource
  \/ DetectFramework
  \/ BuildAttempt
  \/ BuildLoopEnd
  \/ PushImage
  \/ WriteTfvars
  \/ ApplyAttempt
  \/ CompensateApp
  \/ ApplyLoopEnd
  \/ MonitorLoopStart
  \/ MonitorAttempt
  \/ CompensateMonitor
  \/ MonitorLoopEnd
  \/ FinalOutput

Spec == Init /\ [][Next]_vars

TypeOK ==
  /\ pc \in {"idle", "fetch", "detect", "build", "push", "tfvars", "apply",
             "apply_destroy", "monitor", "monitor_loop", "monitor_destroy",
             "final", "done"}
  /\ max_retries \in 0..MaxRetries
  /\ attempt \in 0..MaxRetries
  /\ exit_code \in {-1, 0, 1}
  /\ appGroup \in {"absent", "partial", "provisioned"}
  /\ monGroup \in {"absent", "partial", "provisioned"}

\* ---------------------------------------------- revision rollback engine
\* The revision lists list_task_definitions(sort="DESC") can return:
\* revisions n, n-1, .., 1 of the family.
DescendingRevisions(n) == [i \in 1..n |-> n + 1 - i]

\* A service with between one and MaxRevisions registered revisions, one of
\* which is the service's taskDefinition; no rollback call made yet.
InitRollback ==
  /\ RunIdle
  /\ history_file = MissingFile
  /\ \E n \in 1..MaxRevisions :
       /\ arns = DescendingRevisions(n)
       /\ active_rev \in 1..n
  /\ RollbackIdle
  /\ LedgerIdle
  /\ RemoteIdle
  /\ DestroyIdle
  /\ detected_project_name \in ProjectNames
  /\ PushIdle
  /\ LedgersIdle
  /\ ConcurrentIdle
  /\ BuildIdle

\* `raise` out of rollback_ecs_service with the given exception.
Raise(error) ==
  /\ rb_pc' = "raised"
  /\ rb_error' = error

\* A call of rollback_ecs_service(cluster_name, service_name, ...).
RollbackCall ==
  /\ rb_pc \in {"idle", "returned", "raised"}
  /\ rb_pc' = "session"
  /\ current_task_arn' = 0
  /\ previous_task_arn' = 0
  /\ active0' = active_rev
  /\ update_calls' = 0
  /\ wait_calls' = 0
  /\ wait_outcome' = "none"
  /\ rb_error' = "none"
  /\ rb_result' = <<>>
  /\ UNCHANGED <<arns, active_rev>>
  /\ UNCHANGED <<runVars, ldVars, rcVars, dcVars, nmVars, ecVars, xtVars>>

\* boto3.Session(...).client("ecs")
CreateSession ==
  /\ rb_pc = "session"
  /\ \E ok \in BOOLEAN :
       IF ok THEN rb_pc' = "describe" /\ UNCHANGED rb_error
       ELSE Raise("SessionError")
  /\ UNCHANGED <<arns, active_rev, current_task_arn, previous_task_arn,
                 active0, update_calls, wait_calls, wait_outcome, rb_result>>
  /\ UNCHANGED <<runVars, ldVars, rcVars, dcVars, nmVars, ecVars, xtVars>>

\* Step 1: describe_services; current_task_arn is the service's
\* taskDefinition.
DescribeService ==
  /\ rb_pc = "describe"
  /\ \E o \in {"ok", "not_found", "api_error"} :
       IF o = "ok"
       THEN /\ current_task_arn' = active_rev
            /\ rb_pc' = "list"
            /\ UNCHANGED rb_error
       ELSE /\ Raise(IF o = "not_found" THEN "ServiceNotFound"
                     ELSE "ApiError")
            /\ UNCHANGED current_task_arn
  /\ UNCHANGED <<arns, active_rev, previous_task_arn, active0,
                 update_calls, wait_calls, wait_outcome, rb_result>>
  /\ UNCHANGED <<runVars, ldVars, rcVars, dcVars, nmVars, ecVars, xtVars>>

\* `if len(arns) < 2`
NoPreviousOffByOne(a) == Len(a) < 1
NoPrevious(a) == Len(a) < 2

\* `previous_task_arn = arns[1]`
previous_of_first(a) == a[1]
previous_of(a) == a[2]

\* Step 2: list_task_definitions(sort="DESC"), the length check and the
\* choice of arns[1]; an index past the end of the list is an IndexError.
ListRevisions ==
  /\ rb_pc = "list"
  /\ \E ok \in BOOLEAN :
       IF ~ok
       THEN Raise("ApiError") /\ UNCHANGED previous_task_arn
       ELSE IF NoPrevious(arns)
       THEN Raise("NoPreviousRevision") /\ UNCHANGED previous_task_arn
       ELSE IF Len(arns) < 2
       THEN Raise("IndexError") /\ UNCHANGED previous_task_arn
       ELSE /\ previous_task_arn' = previous_of(arns)
            /\ rb_pc' = "update"
            /\ UNCHANGED rb_error
  /\ UNCHANGED <<arns, active_rev, current_task_arn, active0,
                 update_calls, wait_calls, wait_outcome, rb_result>>
  /\ UNCHANGED <<runVars, ldVars, rcVars, dcVars, nmVars, ecVars, xtVars>>

\* update_service that also deregisters the revision it switches away from.
UpdateServiceDeregisters ==
  /\ rb_pc = "update"
  /\ update_calls' = update_calls + 1
  /\ \E ok \in BOOLEAN :
       IF ok
       THEN /\ active_rev' = previous_task_arn
            /\ arns' = Tail(arns)
            /\ rb_pc' = "wait"
            /\ UNCHANGED rb_error
       ELSE /\ Raise("UpdateFailed")
            /\ UNCHANGED <<active_rev, arns>>
  /\ UNCHANGED <<current_task_arn, previous_task_arn, active0,
                 wait_calls, wait_outcome, rb_result>>
  /\ UNCHANGED <<runVars, ldVars, rcVars, dcVars, nmVars, ecVars, xtVars>>

\* Step 3: update_service(taskDefinition=previous_task_arn,
\* forceNewDeployment=True).
UpdateService ==
  /\ rb_pc = "update"
  /\ update_calls' = update_calls + 1
  /\ \E ok \in BOOLEAN :
       IF ok
       THEN /\ active_rev' = previous_task_arn
            /\ rb_pc' = "wait"
            /\ UNCHANGED rb_error
       ELSE /\ Raise("UpdateFailed")
            /\ UNCHANGED active_rev
  /\ UNCHANGED <<arns, current_task_arn, previous_task_arn, active0,
                 wait_calls, wait_outcome, rb_result>>
  /\ UNCHANGED <<runVars, ldVars, rcVars, dcVars, nmVars, ecVars, xtVars>>

\* What waiter.wait(Delay=15, MaxAttempts=40) can do: the service became
\* stable, the 40 polls ran out, or a poll failed.
WaitOutcomes == {"stable", "timeout", "error"}

\* `except Exception` around waiter.wait: "Don't re-raise, as the update
\* command was sent."
wait_failure_reraised(o) == o /= "stable"
wait_failure_raises(o) == FALSE

\* Step 4: the services_stable waiter; whatever it does, the function
\* returns (current_task_arn, previous_task_arn).
WaitStable ==
  /\ rb_pc = "wait"
  /\ wait_calls' = wait_calls + 1
  /\ \E o \in WaitOutcomes :
       /\ wait_outcome' = o
       /\ IF wait_failure_raises(o)
          THEN /\ Raise("WaiterError")
               /\ UNCHANGED rb_result
          ELSE /\ rb_result' = <<current_task_arn, previous_task_arn>>
               /\ rb_pc' = "returned"
               /\ UNCHANGED rb_error
  /\ UNCHANGED <<arns, active_rev, current_task_arn, previous_task_arn,
                 active0, update_calls>>
  /\ UNCHANGED <<runVars, ldVars, rcVars, dcVars, nmVars, ecVars, xtVars>>

NextRollback ==
  \/ RollbackCall
  \/ CreateSession
  \/ DescribeService
  \/ ListRevisions
  \/ UpdateService
  \/ WaitStable

SpecRollback == InitRollback /\ [][NextRollback]_vars

\* ------------------------------------------------ the rollback command
\* The values of --target: the three the command acts on and one it does
\* not know (typer accepts any string).
Targets == {"all", "ecs-app", "ec2-monitor", "other"}

\* `if rollback_target in ["all", "ec2-monitor"]` and
\* `if rollback_target in ["all", "ecs-app"]`.
destroys_monitor_any(rollback_target) == TRUE
destroys_monitor(rollback_target) == rollback_target \in {"all", "ec2-monitor"}
destroys_app_only_all(rollback_target) == rollback_target = "all"
destroys_app(rollback_target) == rollback_target \in {"all", "ecs-app"}

\* A destroy that was not asked for: nothing runs.
Skipped(app, mon) ==
  {[raised |-> FALSE, init_ok |-> TRUE, groups |-> <<app, mon>>]}

\* rollback_command_logic: destroy the monitoring group, then the
\* application group, each if the target asks for it; the first destroy
\* that raises ends the command with typer.Exit(code=1).  The possible
\* results: exit code, whether every init succeeded, groups afterwards.
rollback_command_logic(project_name, rollback_target, app, mon) ==
  LET first == IF destroys_monitor(rollback_target)
               THEN destroy_terraform(project_name, "ec2-monitor.tfstate",
                                      app, mon)
               ELSE Skipped(app, mon)
      second(r) == IF destroys_app(rollback_target)
                   THEN destroy_terraform(project_name, "ecs-app.tfstate",
                                          r.groups[1], r.groups[2])
                   ELSE Skipped(r.groups[1], r.groups[2])
  IN {[exit |-> 1, init_ok |-> r.init_ok, groups |-> r.groups,
       reached_app |-> FALSE] : r \in {x \in first : x.raised}}
     \cup
     UNION {{[exit |-> IF r2.raised THEN 1 ELSE 0,
              init_ok |-> r2.init_ok, groups |-> r2.groups,
              reached_app |-> TRUE] : r2 \in second(r)}
              : r \in {x \in first : ~x.raised}}

\* The terraform invocations of one `rollback` command.
CommandCalls(project_name, rollback_target, reached_app) ==
  (IF destroys_monitor(rollback_target)
   THEN {Call("destroy_monitor", project_name,
              state_key(project_name, "ec2-monitor.tfstate"))}
   ELSE {})
  \cup
  (IF reached_app /\ destroys_app(rollback_target)
   THEN {Call("destroy_app", project_name,
              state_key(project_name, "ecs-app.tfstate"))}
   ELSE {})

\* The terraform invocations made by `run`.
RunCalls(calls) ==
  {c \in calls : c.site \notin {"destroy_monitor", "destroy_app"}}

\* Invocation of `rollback <project> --target <target>` after a run.  The
\* command does not call history_manager.
DestroyCommand ==
  /\ pc = "done"
  /\ dc_count < MaxCommands
  /\ \E project_name \in Projects, rollback_target \in Targets :
       /\ dc_args' = [project |-> project_name, target |-> rollback_target]
       /\ \E r \in rollback_command_logic(project_name, rollback_target,
                                          appGroup, monGroup) :
            /\ appGroup' = r.groups[1]
            /\ monGroup' = r.groups[2]
            /\ dc_exit' = r.exit
            /\ dc_init_ok' = r.init_ok
            /\ tf_calls' = RunCalls(tf_calls) \cup
                  CommandCalls(project_name, rollback_target, r.reached_app)
  /\ dc_before' = <<appGroup, monGroup>>
  /\ dc_count' = dc_count + 1
  /\ ld_op' = "destroy"
  /\ ld_before' = load_history(history_file)
  /\ ld_raised' = FALSE
  /\ UNCHANGED <<ld_record, ld_save_failed>>
  /\ UNCHANGED <<pc, runs, max_retries, attempt, clone_exists, fetch_ops,
                 log, image_uri, public_url, ec2_ip, exit_code, abort_stage,
                 temp_dirs, history_file, history0>>
  /\ UNCHANGED <<rbVars, rcVars, nmVars, ecVars, xtVars>>

\* Steps 1 to 5 of a run have succeeded (with --retries 0 the build loop
\* was skipped) and nothing is provisioned yet.
InitInfra ==
  /\ pc = "apply"
  /\ runs = 1
  /\ max_retries \in 0..MaxInfraRetries
  /\ attempt = 0
  /\ clone_exists = TRUE
  /\ fetch_ops = <<"clone">>
  /\ log = IF max_retries = 0
           THEN << Entry("fetch", "attempt", TRUE, "ok"),
                   Entry("detect", "attempt", TRUE, "ok"),
                   Entry("push", "attempt", TRUE, "ok") >>
           ELSE << Entry("fetch", "attempt", TRUE, "ok"),
                   Entry("detect", "attempt", TRUE, "ok"),
                   Entry("build", "attempt", TRUE, "ok"),
                   Entry("push", "attempt", TRUE, "ok") >>
  /\ image_uri = "repo:tag"
  /\ public_url = "None"
  /\ ec2_ip = "None"
  /\ exit_code = -1
  /\ abort_stage = "none"
  /\ appGroup = "absent"
  /\ monGroup = "absent"
  /\ temp_dirs = 0
  /\ tf_calls = {}
  /\ history0 = 0
  /\ history_file = MissingFile
  /\ arns = <<1>>
  /\ active_rev = 1
  /\ RollbackIdle
  /\ LedgerIdle
  /\ RemoteIdle
  /\ DestroyIdle
  /\ detected_project_name \in ProjectNames
  /\ PushIdle
  /\ LedgersIdle
  /\ ConcurrentIdle
  /\ BuildIdle

\* The infrastructure stages of the run, then `rollback` commands.
NextInfra ==
  \/ ApplyAttempt
  \/ CompensateApp
  \/ ApplyLoopEnd
  \/ MonitorLoopStart
  \/ MonitorAttempt
  \/ CompensateMonitor
  \/ MonitorLoopEnd
  \/ FinalOutput
  \/ DestroyCommand

SpecInfra == InitInfra /\ [][NextInfra]_vars

\* ------------------------------------------- ledger commands of the CLI
\* The records a successful run hands to add_deployment_record: with the
\* monitor host address, or with "N/A" in its place.
LedgerRecords ==
  {[image_uri |-> "repo:tag", public_app_url |-> "http://app",
    monitor_ec2_ip |-> ip] : ip \in {"10.0.0.1", "N/A"}}

\* What deployments_history.json can hold when a command starts: nothing
\* (no file), bytes that are not JSON, JSON that is not a list, or a list.
InitialFiles ==
  {MissingFile,
   [state |-> "corrupt", records |-> <<>>],
   [state |-> "not_list", records |-> <<>>],
   [state |-> "ok", records |-> <<>>]}

InitLedger ==
  /\ RunIdle
  /\ history_file \in InitialFiles
  /\ arns = <<1>>
  /\ active_rev = 1
  /\ RollbackIdle
  /\ LedgerIdle
  /\ RemoteIdle
  /\ DestroyIdle
  /\ detected_project_name \in ProjectNames
  /\ PushIdle
  /\ LedgersIdle
  /\ ConcurrentIdle
  /\ BuildIdle

\* The ledger write of a successful `run`:
\* history_manager.add_deployment_record(safe_name, deployment_record).
AddDeploymentRecord ==
  /\ Len(load_history(history_file).items) < MaxRecords
  /\ \E record \in LedgerRecords, write_ok \in BOOLEAN :
       /\ ld_record' = record
       /\ ld_save_failed' = (~append_raises(history_file) /\ ~write_ok)
       /\ history_file' =
            add_deployment_record(history_file, record, write_ok)
  /\ ld_op' = "append"
  /\ ld_before' = load_history(history_file)
  /\ ld_raised' = append_raises(history_file)
  /\ UNCHANGED <<pc, runs, max_retries, attempt, clone_exists, fetch_ops,
                 log, image_uri, public_url, ec2_ip, exit_code, abort_stage,
                 appGroup, monGroup, temp_dirs, tf_calls, history0>>
  /\ UNCHANGED <<rbVars, rcVars, dcVars, nmVars, ecVars, xtVars>>

\* `history`: load_history, then `for i, record in enumerate(...)` with
\* record.get(...), which raises on a loaded value that is not a list of
\* records.
HistoryCommand ==
  /\ ld_op' = "history"
  /\ ld_before' = load_history(history_file)
  /\ ld_raised' = ~load_history(history_file).is_list
  /\ UNCHANGED <<ld_record, ld_save_failed>>
  /\ UNCHANGED runVars
  /\ UNCHANGED <<rbVars, rcVars, dcVars, nmVars, ecVars, xtVars>>

\* `cleanup-local`: shutil.rmtree("workspace"), the directory that holds
\* the cloned repositories and every project's deployments_history.json.
CleanupLocal ==
  /\ ld_op' = "cleanup"
  /\ ld_before' = load_history(history_file)
  /\ ld_raised' = FALSE
  /\ \E ok \in BOOLEAN :
       IF ok
       THEN history_file' = MissingFile /\ clone_exists' = FALSE
       ELSE UNCHANGED <<history_file, clone_exists>>
  /\ UNCHANGED <<ld_record, ld_save_failed>>
  /\ UNCHANGED <<pc, runs, max_retries, attempt, fetch_ops, log, image_uri,
                 public_url, ec2_ip, exit_code, abort_stage, appGroup,
                 monGroup, temp_dirs, tf_calls, history0>>
  /\ UNCHANGED <<rbVars, rcVars, dcVars, nmVars, ecVars, xtVars>>

NextLedger ==
  \/ AddDeploymentRecord
  \/ HistoryCommand
  \/ CleanupLocal

SpecLedger == InitLedger /\ [][NextLedger]_vars

\* --------------------------------- remote configuration of the monitor
\* provision_ec2 from the point where terraform has reported the host's
\* address and key path (ec2_provision.py:72).

max_ssh_retries_eleven == 10 + 1    \* one iteration beyond range(10)
max_ssh_retries == 10    \* connection attempts
retry_delay == 10        \* seconds slept after a retryable failure

\* A batch of n shell commands (_execute_remote_commands) and the
\* deployment of one file (_sftp_file_and_move: upload to /tmp, then
\* `sudo mv` into place).
Batch(n) == [kind |-> "batch", len |-> n]
File == [kind |-> "file", len |-> 1]

\* The configuration actions in the order the code performs them:
\* _install_and_configure_prometheus_node_exporter, then
\* _install_and_configure_grafana.
Program ==
  << Batch(23),  \* install prometheus, node_exporter, blackbox_exporter
     File,       \* blackbox_exporter.service
     Batch(7),   \* daemon-reload, enable and start the three services
     File,       \* blackbox.yml
     Batch(1),   \* restart blackbox_exporter
     File,       \* prometheus.yml
     Batch(1),   \* restart prometheus
     Batch(4),   \* install, enable and start grafana-server
     File,       \* prometheus-datasource.yaml
     File,       \* node-exporter-dashboard-provisioning.yaml
     File,       \* node-exporter-basic-dashboard.json
     Batch(1) >> \* start grafana-server

\* The commands of action a, as <<action, command>> positions.
Positions(a) == [c \in 1..Program[a].len |-> <<a, c>>]

RECURSIVE Flatten(_)
Flatten(a) ==
  IF a > Len(Program) THEN <<>> ELSE Positions(a) \o Flatten(a + 1)

\* Every command of the configuration, in the order of the code.
ConfigurationPlan == Flatten(1)

\* The file actions of the configuration.
FileActions == {a \in 1..Len(Program) : Program[a].kind = "file"}

\* The `systemctl start` and `systemctl restart` commands of the batches,
\* by position.
ServiceOps ==
  { [at |-> <<3, 5>>, service |-> "prometheus", op |-> "start"],
    [at |-> <<3, 6>>, service |-> "node_exporter", op |-> "start"],
    [at |-> <<3, 7>>, service |-> "blackbox_exporter", op |-> "start"],
    [at |-> <<5, 1>>, service |-> "blackbox_exporter", op |-> "restart"],
    [at |-> <<7, 1>>, service |-> "prometheus", op |-> "restart"],
    [at |-> <<8, 4>>, service |-> "grafana-server", op |-> "start"],
    [at |-> <<12, 1>>, service |-> "grafana-server", op |-> "start"] }

\* The service that reads each deployed file: the unit file and the
\* --config.file of blackbox_exporter, the --config.file of prometheus,
\* the provisioning files of grafana-server.
Consumers ==
  { [file |-> 2, service |-> "blackbox_exporter"],
    [file |-> 4, service |-> "blackbox_exporter"],
    [file |-> 6, service |-> "prometheus"],
    [file |-> 9, service |-> "grafana-server"],
    [file |-> 10, service |-> "grafana-server"],
    [file |-> 11, service |-> "grafana-server"] }

\* The final paths that already hold a file before the deployment: the
\* release directory moved to /usr/local/prometheus by command 5 of the
\* first batch contains a default prometheus.yml.
Preinstalled == { [file |-> 6, at |-> <<1, 5>>] }

\* The file actions whose content service s reads.
ConfigFiles(s) == {c.file : c \in {x \in Consumers : x.service = s}}

\* What a reader of the final path of file action a finds.
FinalContent(final, a) == IF a \in DOMAIN final THEN final[a] ELSE "old"

\* The files of service s that are in place with their new content.
InPlace(s, final) == {f \in ConfigFiles(s) : FinalContent(final, f) = "new"}

\* The running services after the command at position `at` exited zero:
\* `systemctl start` of a running service changes nothing; otherwise the
\* service (re)starts and reads the files that are in place.
AfterCommand(services, at, final) ==
  IF \E r \in ServiceOps : r.at = at
  THEN LET r == CHOOSE x \in ServiceOps : x.at = at IN
         IF r.op = "start" /\ r.service \in DOMAIN services
         THEN services
         ELSE (r.service :> InPlace(r.service, final)) @@ services
  ELSE services

\* What ssh_client.connect can do: return, raise AuthenticationException,
\* raise SSHException "not a valid RSA private key file", raise any other
\* SSHException, or raise any other exception (timeout, socket error).
ConnectOutcomes == {"ok", "auth", "bad_key", "ssh_error", "other_error"}

\* The failures the connect loop re-raises instead of retrying.
IsFatalKeyOnly(outcome) == outcome = "bad_key"
IsFatal(outcome) == outcome \in {"auth", "bad_key"}

\* `if exit_status != 0: raise` in _execute_remote_commands.
BatchNeverStops(exit_status) == FALSE
BatchStops(exit_status) == exit_status /= 0

\* An exception leaves the try block: `except Exception` (lines 127-129)
\* echoes it and sets public_ip = None; the finally block only echoes.
\* Nothing on this path touches ssh_client.
Fail(kind, at) ==
  /\ rc_state' = "Failed"
  /\ rc_error' = [kind |-> kind, at |-> at]

\* paramiko.SSHClient() and set_missing_host_key_policy (lines 78-79).
CreateClient ==
  /\ rc_state = "Provisioned"
  /\ rc_state' = "Connecting"
  /\ ssh_client' = "created"
  /\ UNCHANGED <<ssh_attempts, ssh_waited, ssh_last, rc_action, rc_cmd,
                 rc_executed, rc_last, rc_error>>
  /\ UNCHANGED <<rc_temp, rc_final, rc_services>>
  /\ UNCHANGED <<runVars, rbVars, ldVars, dcVars, nmVars, ecVars, xtVars>>

\* One iteration of `for i in range(max_ssh_retries)` (lines 85-101).
ConnectAttempt ==
  /\ rc_state = "Connecting"
  /\ ssh_attempts < max_ssh_retries
  /\ ssh_attempts' = ssh_attempts + 1
  /\ \E outcome \in ConnectOutcomes :
       /\ ssh_last' = outcome
       /\ IF outcome = "ok"
          THEN /\ ssh_client' = "connected"
               /\ rc_state' = "Configuring"
               /\ UNCHANGED <<ssh_waited, rc_error>>
          ELSE IF IsFatal(outcome)
          THEN /\ Fail(outcome, <<0, 0>>)
               /\ UNCHANGED <<ssh_client, ssh_waited>>
          ELSE /\ ssh_waited' = ssh_waited + retry_delay
               /\ UNCHANGED <<ssh_client, rc_state, rc_error>>
  /\ UNCHANGED <<rc_action, rc_cmd, rc_executed, rc_last>>
  /\ UNCHANGED <<rc_temp, rc_final, rc_services>>
  /\ UNCHANGED <<runVars, rbVars, ldVars, dcVars, nmVars, ecVars, xtVars>>

\* The else branch of the loop (lines 102-104): every attempt failed.
ConnectExhausted ==
  /\ rc_state = "Connecting"
  /\ ssh_attempts >= max_ssh_retries
  /\ Fail("exhausted", <<0, 0>>)
  /\ UNCHANGED <<ssh_client, ssh_attempts, ssh_waited, ssh_last, rc_action,
                 rc_cmd, rc_executed, rc_last>>
  /\ UNCHANGED <<rc_temp, rc_final, rc_services>>
  /\ UNCHANGED <<runVars, rbVars, ldVars, dcVars, nmVars, ecVars, xtVars>>
\* What a remote command can report: exit status zero or not, with or
\* without text on its error stream.
ExitStatuses == {0, 1}
ErrorStreams == {"", "text"}

\* One iteration of `for cmd in commands` in _execute_remote_commands
\* (lines 138-153): run the command, echo its error stream if it is not
\* empty, raise on a non-zero exit status.
RunCommand ==
  /\ rc_state = "Configuring"
  /\ rc_action <= Len(Program)
  /\ Program[rc_action].kind = "batch"
  /\ LET at == <<rc_action, rc_cmd + 1>> IN
       /\ rc_executed' = Append(rc_executed, at)
       /\ \E exit_status \in ExitStatuses, stderr \in ErrorStreams :
            /\ rc_last' = [at |-> at, exit_status |-> exit_status,
                           stderr |-> stderr,
                           stderr_echoed |-> (stderr /= "")]
            /\ rc_services' = IF exit_status = 0
                              THEN AfterCommand(rc_services, at, rc_final)
                              ELSE rc_services
            /\ IF BatchStops(exit_status)
               THEN /\ Fail("command", at)
                    /\ UNCHANGED <<rc_action, rc_cmd>>
               ELSE /\ IF rc_cmd + 1 = Program[rc_action].len
                       THEN rc_action' = rc_action + 1 /\ rc_cmd' = 0
                       ELSE rc_cmd' = rc_cmd + 1 /\ UNCHANGED rc_action
                    /\ UNCHANGED <<rc_state, rc_error>>
  /\ UNCHANGED <<ssh_client, ssh_attempts, ssh_waited, ssh_last, rc_temp,
                 rc_final>>
  /\ UNCHANGED <<runVars, rbVars, ldVars, dcVars, nmVars, ecVars, xtVars>>

\* The remote path sftp_client.file(...) opens for writing in
\* _sftp_file_and_move (line 160).
upload_path_final(remote_temp_path, remote_final_path) == remote_final_path
upload_path(remote_temp_path, remote_final_path) == remote_temp_path

\* What a write leaves in a file: part of the content, or all of it.
Written == {"partial", "complete"}

\* _sftp_file_and_move, first step (lines 158-164): open the remote file
\* and write the content; the write can stop part way (the file then holds
\* part of the content, and the exception leaves the function) or complete.
UploadFile ==
  /\ rc_state = "Configuring"
  /\ rc_action <= Len(Program)
  /\ Program[rc_action].kind = "file"
  /\ rc_temp /= "complete"
  /\ \E written \in Written, raised \in BOOLEAN :
       /\ raised => written = "partial"
       /\ IF upload_path("temp", "final") = "temp"
          THEN rc_temp' = written /\ UNCHANGED rc_final
          ELSE /\ rc_temp' = IF raised THEN rc_temp ELSE "complete"
               /\ rc_final' = (rc_action :>
                                 IF written = "complete" THEN "new"
                                 ELSE "partial") @@ rc_final
       /\ IF raised
          THEN Fail("upload", <<rc_action, 1>>)
          ELSE UNCHANGED <<rc_state, rc_error>>
  /\ UNCHANGED <<ssh_client, ssh_attempts, ssh_waited, ssh_last, rc_action,
                 rc_cmd, rc_executed, rc_last, rc_services>>
  /\ UNCHANGED <<runVars, rbVars, ldVars, dcVars, nmVars, ecVars, xtVars>>

\* _sftp_file_and_move, second step (lines 166-175): `sudo mv` of the
\* temporary path onto the final path, a rename; a non-zero exit status
\* echoes the error stream and raises, the final path being as it was.
MoveFile ==
  /\ rc_state = "Configuring"
  /\ rc_action <= Len(Program)
  /\ Program[rc_action].kind = "file"
  /\ rc_temp = "complete"
  /\ LET at == <<rc_action, 1>> IN
       /\ rc_executed' = Append(rc_executed, at)
       /\ \E exit_status \in ExitStatuses, stderr \in ErrorStreams :
            /\ rc_last' = [at |-> at, exit_status |-> exit_status,
                           stderr |-> stderr,
                           stderr_echoed |-> (exit_status /= 0)]
            /\ IF exit_status /= 0
               THEN /\ Fail("move", at)
                    /\ UNCHANGED <<rc_action, rc_cmd, rc_temp, rc_final>>
               ELSE /\ rc_final' = (rc_action :> "new") @@ rc_final
                    /\ rc_temp' = "none"
                    /\ rc_action' = rc_action + 1
                    /\ rc_cmd' = 0
                    /\ UNCHANGED <<rc_state, rc_error>>
  /\ UNCHANGED <<ssh_client, ssh_attempts, ssh_waited, ssh_last,
                 rc_services>>
  /\ UNCHANGED <<runVars, rbVars, ldVars, dcVars, nmVars, ecVars, xtVars>>

\* ssh_client.close() after the last action (line 115); provision_ec2
\* then returns the address.
CloseSession ==
  /\ rc_state = "Configuring"
  /\ rc_action > Len(Program)
  /\ ssh_client' = "closed"
  /\ rc_state' = "Ready"
  /\ UNCHANGED <<ssh_attempts, ssh_waited, ssh_last, rc_action, rc_cmd,
                 rc_executed, rc_last, rc_error>>
  /\ UNCHANGED <<rc_temp, rc_final, rc_services>>
  /\ UNCHANGED <<runVars, rbVars, ldVars, dcVars, nmVars, ecVars, xtVars>>

NextRemote ==
  \/ CreateClient
  \/ ConnectAttempt
  \/ ConnectExhausted
  \/ RunCommand
  \/ UploadFile
  \/ MoveFile
  \/ CloseSession

SpecRemote == Init /\ [][NextRemote]_vars

\* ------------------------------------------ one run with its SSH sessions
\* The first invocation of `run`, with a small --retries value.
FirstRun ==
  /\ runs = 0
  /\ RunStart
  /\ max_retries' <= MaxTermRetries

\* provision_ec2 inside an iteration of the step 7 loop: the SSH client
\* and the connection loop of that call.
ProvisionConnect ==
  /\ pc = "monitor_loop"
  /\ attempt < max_retries
  /\ \/ CreateClient
     \/ ConnectAttempt
     \/ ConnectExhausted

\* Where the SSH session of a provision_ec2 call stands when the call
\* ends with outcome o: terraform and its outputs come before the client
\* is created, the remote commands after the connection succeeded.
SessionAt(o) ==
  IF o \in {"raised", "json_invalid", "outputs_missing"}
  THEN rc_state = "Provisioned"
  ELSE IF o = "auth_failed"
  THEN rc_state = "Failed" /\ IsFatal(rc_error.kind)
  ELSE IF o = "ssh_exhausted"
  THEN rc_state = "Failed" /\ rc_error.kind = "exhausted"
  ELSE rc_state = "Configuring"

\* An iteration of the step 7 loop whose outcome agrees with the session.
ProvisionAttempt ==
  /\ MonitorAttempt
  /\ SessionAt(log'[Len(log')].outcome)

\* provision_ec2 has returned or raised: its SSH client and counters are
\* locals of the call and are gone.
ProvisionReturn ==
  /\ pc \in {"monitor_destroy", "final", "done"}
  /\ ~RemoteIdle
  /\ rc_state' = "Provisioned"
  /\ ssh_client' = "none"
  /\ ssh_attempts' = 0
  /\ ssh_waited' = 0
  /\ ssh_last' = "none"
  /\ rc_error' = NoError
  /\ UNCHANGED <<rc_action, rc_cmd, rc_executed, rc_last, rc_temp, rc_final,
                 rc_services>>
  /\ UNCHANGED <<runVars, rbVars, ldVars, dcVars, nmVars, ecVars, xtVars>>

\* The compensating destroy of step 7, run after provision_ec2 raised.
CompensateAfterReturn ==
  /\ RemoteIdle
  /\ CompensateMonitor

NextTerm ==
  \/ FirstRun
  \/ FetchSource
  \/ DetectFramework
  \/ BuildAttempt
  \/ BuildLoopEnd
  \/ PushImage
  \/ WriteTfvars
  \/ ApplyAttempt
  \/ CompensateApp
  \/ ApplyLoopEnd
  \/ MonitorLoopStart
  \/ ProvisionConnect
  \/ ProvisionAttempt
  \/ ProvisionReturn
  \/ CompensateAfterReturn
  \/ MonitorLoopEnd
  \/ FinalOutput

\* Every external call returns: a step that can be taken is taken.
SpecTerm == Init /\ [][NextTerm]_vars /\ WF_vars(NextTerm)

\* ------------------------------------------- ledgers of several projects
\* Records in all the ledger files together.
TotalRecords(files) ==
  LET RECURSIVE Sum(_)
      Sum(S) == IF S = {} THEN 0
                ELSE LET f == CHOOSE x \in S : TRUE
                     IN Len(files[f].records) + Sum(S \ {f})
  IN Sum(DOMAIN files)

\* What a ledger file can hold before the first call.
InitLedgers ==
  /\ RunIdle
  /\ history_file = MissingFile
  /\ arns = <<1>>
  /\ active_rev = 1
  /\ RollbackIdle
  /\ LedgerIdle
  /\ RemoteIdle
  /\ DestroyIdle
  /\ detected_project_name \in ProjectNames
  /\ PushIdle
  /\ lg_files \in [LedgerPaths -> {MissingFile,
                                    [state |-> "not_list", records |-> <<>>]}]
  /\ lg_dirs = {}
  /\ lg_op = [op |-> "none", project |-> <<>>]
  /\ lg_before = LoadAll(lg_files)
  /\ ConcurrentIdle
  /\ BuildIdle

\* add_deployment_record(project_name, record).
AppendRecord ==
  /\ TotalRecords(lg_files) < MaxRecords
  /\ \E p \in LedgerProjects, record \in LedgerRecords, write_ok \in BOOLEAN :
       /\ lg_files' =
            [lg_files EXCEPT ![history_file_path(p)] =
               add_deployment_record(@, record, write_ok)]
       /\ lg_dirs' = lg_dirs \cup {<<"workspace", p>>}
       /\ lg_op' = [op |-> "append", project |-> p]
  /\ lg_before' = LoadAll(lg_files)
  /\ UNCHANGED <<runVars, rbVars, ldVars, rcVars, dcVars, nmVars, ecVars>>
  /\ UNCHANGED <<ccVars, bdVars>>

\* load_history(project_name): reads the file and creates the directory.
LoadHistory ==
  /\ \E p \in LedgerProjects :
       /\ lg_dirs' = lg_dirs \cup {<<"workspace", p>>}
       /\ lg_op' = [op |-> "load", project |-> p]
  /\ lg_before' = LoadAll(lg_files)
  /\ UNCHANGED lg_files
  /\ UNCHANGED <<runVars, rbVars, ldVars, rcVars, dcVars, nmVars, ecVars>>
  /\ UNCHANGED <<ccVars, bdVars>>

NextLedgers ==
  \/ AppendRecord
  \/ LoadHistory

SpecLedgers == InitLedgers /\ [][NextLedgers]_vars

\* ---------------------------------------------------------- image builder
\* The framework names detect_framework returns.
Frameworks == {"nextjs", "vite", "cra", "react", "unknown"}

\* project_path/Dockerfile holds nothing ("absent"), the repository's own
\* build file ("own"), the copied template, or part of the template.

\* build_docker_image ends: it returns, raises typer.Exit(code=1), or
\* raises another exception.
BuildEnds(result) ==
  /\ bd_pc' = "done"
  /\ bd_result' = result

\* A call of build_docker_image(project_path, framework, image_tag) on a
\* repository with or without a Dockerfile of its own.
BuildStart ==
  /\ bd_pc \in {"idle", "done"}
  /\ bd_builds < MaxBuilds
  /\ bd_builds' = bd_builds + 1
  /\ \E f \in Frameworks : bd_framework' = f
  /\ \E d \in IF bd_pc = "idle" THEN {"absent", "own"} ELSE {bd_dockerfile} :
       /\ bd_dockerfile' = d
       /\ bd_before' = d
  /\ bd_pc' = "check"
  /\ bd_pending' = "none"
  /\ bd_result' = "none"
  /\ UNCHANGED <<runVars, rbVars, ldVars, rcVars, dcVars, nmVars, ecVars>>
  /\ UNCHANGED <<lgVars, ccVars>>

\* `if not dockerfile_source.exists(): raise FileNotFoundError`: there is
\* no template for "unknown", and the path is relative to the working
\* directory of the process.
CheckTemplate ==
  /\ bd_pc = "check"
  /\ \E exists \in IF bd_framework = "unknown" THEN {FALSE} ELSE BOOLEAN :
       IF exists
       THEN bd_pc' = "copy" /\ UNCHANGED bd_result
       ELSE BuildEnds("raised")
  /\ UNCHANGED <<bd_framework, bd_dockerfile, bd_before, bd_pending,
                 bd_builds>>
  /\ UNCHANGED <<runVars, rbVars, ldVars, rcVars, dcVars, nmVars, ecVars>>
  /\ UNCHANGED <<lgVars, ccVars>>

\* What shutil.copyfile leaves at the destination: the template; or, when
\* it fails, what was there (the open failed) or part of the template.
copyfile(dest, ok) == IF ok THEN {"template"} ELSE {dest, "partial"}

\* shutil.copyfile(dockerfile_source, dockerfile_dest), before the try
\* block with the cleanup: a failure is typer.Exit(code=1).
CopyTemplate ==
  /\ bd_pc = "copy"
  /\ \E ok \in BOOLEAN :
       /\ \E d \in copyfile(bd_dockerfile, ok) : bd_dockerfile' = d
       /\ IF ok
          THEN bd_pc' = "build" /\ UNCHANGED bd_result
          ELSE BuildEnds("exit1")
  /\ UNCHANGED <<bd_framework, bd_before, bd_pending, bd_builds>>
  /\ UNCHANGED <<runVars, rbVars, ldVars, rcVars, dcVars, nmVars, ecVars>>
  /\ UNCHANGED <<lgVars, ccVars>>

\* subprocess.run(["docker", "build", ...], check=True): it returns,
\* raises CalledProcessError (typer.Exit), or raises something else,
\* whose handler reads the unassigned `process` and raises
\* UnboundLocalError.  The finally block runs in every case.
DockerBuild ==
  /\ bd_pc = "build"
  /\ \E o \in {"ok", "exit1", "raised"} : bd_pending' = o
  /\ bd_pc' = "cleanup"
  /\ UNCHANGED <<bd_framework, bd_dockerfile, bd_before, bd_result,
                 bd_builds>>
  /\ UNCHANGED <<runVars, rbVars, ldVars, rcVars, dcVars, nmVars, ecVars>>
  /\ UNCHANGED <<lgVars, ccVars>>

\* finally: `if dockerfile_dest.exists(): os.remove(dockerfile_dest)`,
\* then the pending return or exception goes on.
CleanupDockerfile ==
  /\ bd_pc = "cleanup"
  /\ bd_dockerfile' = "absent"
  /\ BuildEnds(bd_pending)
  /\ UNCHANGED <<bd_framework, bd_before, bd_pending, bd_builds>>
  /\ UNCHANGED <<runVars, rbVars, ldVars, rcVars, dcVars, nmVars, ecVars>>
  /\ UNCHANGED <<lgVars, ccVars>>

NextBuild ==
  \/ BuildStart
  \/ CheckTemplate
  \/ CopyTemplate
  \/ DockerBuild
  \/ CleanupDockerfile

SpecBuild == Init /\ [][NextBuild]_vars

\* ------------------------------- two runs sharing the terraform directory
\* The variables write_tfvars writes for a process: its project name and
\* the image it pushed to the repository of that name.
VarsOf(proc) ==
  [project_name |-> SafeNameOf(ProcProject(proc)),
   image_url |-> SafeNameOf(ProcProject(proc))]

\* What the terraform commands of a process are meant to work with.
OwnUse(proc) ==
  [vars |-> VarsOf(proc), key |-> apply_key(SafeNameOf(ProcProject(proc)))]

\* A step of a process: it succeeds and the process goes on to `next`, or
\* it fails and the process ends (--retries 1).
StepTo(proc, ok, next) ==
  cc_pc' = [cc_pc EXCEPT ![proc] = IF ok THEN next ELSE "failed"]

\* Step 5: write_tfvars rewrites TF_BASE_DIR/terraform.tfvars.json.
CcWriteTfvars ==
  /\ \E proc \in Procs, ok \in BOOLEAN :
       /\ cc_pc[proc] = "tfvars"
       /\ tfvars_json' = IF ok THEN VarsOf(proc) ELSE tfvars_json
       /\ StepTo(proc, ok, "init")
  /\ UNCHANGED <<backend_key, cc_planned, cc_applied>>
  /\ UNCHANGED <<runVars, rbVars, ldVars, rcVars, dcVars, nmVars, ecVars>>
  /\ UNCHANGED <<lgVars, bdVars>>

\* apply_terraform: `terraform init -reconfigure -backend-config=key=...`
\* in TF_BASE_DIR rewrites the backend configuration kept in .terraform.
CcInit ==
  /\ \E proc \in Procs, ok \in BOOLEAN :
       /\ cc_pc[proc] = "init"
       /\ backend_key' = IF ok THEN apply_key(VarsOf(proc).project_name)
                         ELSE backend_key
       /\ StepTo(proc, ok, "plan")
  /\ UNCHANGED <<tfvars_json, cc_planned, cc_applied>>
  /\ UNCHANGED <<runVars, rbVars, ldVars, rcVars, dcVars, nmVars, ecVars>>
  /\ UNCHANGED <<lgVars, bdVars>>

\* `terraform plan -var-file=terraform.tfvars.json` in TF_BASE_DIR reads
\* the variable file and the configured backend as they are now.
CcPlan ==
  /\ \E proc \in Procs, ok \in BOOLEAN :
       /\ cc_pc[proc] = "plan"
       /\ cc_planned' = [cc_planned EXCEPT ![proc] =
                           [vars |-> tfvars_json, key |-> backend_key]]
       /\ StepTo(proc, ok, "apply")
  /\ UNCHANGED <<tfvars_json, backend_key, cc_applied>>
  /\ UNCHANGED <<runVars, rbVars, ldVars, rcVars, dcVars, nmVars, ecVars>>
  /\ UNCHANGED <<lgVars, bdVars>>

\* `terraform apply -auto-approve -var-file=terraform.tfvars.json`.
CcApply ==
  /\ \E proc \in Procs, ok \in BOOLEAN :
       /\ cc_pc[proc] = "apply"
       /\ cc_applied' = [cc_applied EXCEPT ![proc] =
                           [vars |-> tfvars_json, key |-> backend_key]]
       /\ StepTo(proc, ok, "done")
  /\ UNCHANGED <<tfvars_json, backend_key, cc_planned>>
  /\ UNCHANGED <<runVars, rbVars, ldVars, rcVars, dcVars, nmVars, ecVars>>
  /\ UNCHANGED <<lgVars, bdVars>>

NextConcurrent ==
  \/ CcWriteTfvars
  \/ CcInit
  \/ CcPlan
  \/ CcApply

SpecConcurrent == Init /\ [][NextConcurrent]_vars

\* ------------------------------------------------- registry collaborator
\* push_to_ecr ends at `step`: with typer.Exit(code=1), with another
\* exception, or by returning the image URI.
PushEnds(step, result) ==
  /\ ec_pc' = "done"
  /\ ec_failed_at' = IF result = "ok" THEN "none" ELSE step
  /\ ec_result' = result

\* A call of push_to_ecr(image_tag, repo_name=safe_name).
PushStart ==
  /\ ec_pc \in {"idle", "done"}
  /\ ec_pushes < MaxPushes
  /\ ec_pushes' = ec_pushes + 1
  /\ ec_pc' = "client"
  /\ ec_calls' = <<>>
  /\ ec_described' = "none"
  /\ ec_conflict' = FALSE
  /\ ec_failed_at' = "none"
  /\ ec_result' = "none"
  /\ UNCHANGED ec_repo
  /\ UNCHANGED <<runVars, rbVars, ldVars, rcVars, dcVars, nmVars, xtVars>>

\* get_region (outside every try) and the creation of the boto3 client.
CreateEcrClient ==
  /\ ec_pc = "client"
  /\ \E o \in {"ok", "region_raises", "client_raises"} :
       IF o = "ok"
       THEN /\ ec_pc' = "auth"
            /\ UNCHANGED <<ec_failed_at, ec_result>>
       ELSE PushEnds("client",
                     IF o = "region_raises" THEN "raised" ELSE "exit1")
  /\ UNCHANGED <<ec_repo, ec_calls, ec_described, ec_conflict, ec_pushes>>
  /\ UNCHANGED <<runVars, rbVars, ldVars, rcVars, dcVars, nmVars, xtVars>>

\* get_authorization_token and docker login: an IndexError is only
\* echoed, a failing login is typer.Exit(code=1), anything else re-raised.
Authenticate ==
  /\ ec_pc = "auth"
  /\ \E o \in {"ok", "index_error", "login_failed", "other"} :
       IF o \in {"ok", "index_error"}
       THEN /\ ec_pc' = "describe"
            /\ UNCHANGED <<ec_failed_at, ec_result>>
       ELSE PushEnds("auth", IF o = "login_failed" THEN "exit1" ELSE "raised")
  /\ UNCHANGED <<ec_repo, ec_calls, ec_described, ec_conflict, ec_pushes>>
  /\ UNCHANGED <<runVars, rbVars, ldVars, rcVars, dcVars, nmVars, xtVars>>

\* Answers of describe_repositories(repositoryNames=[repo_name]).
DescribeAnswers(exists) ==
  IF exists THEN {"found", "error"} ELSE {"absent", "error"}

\* The existence check: RepositoryNotFoundException leads to the create
\* call, any other exception to typer.Exit(code=1).
DescribeRepository ==
  /\ ec_pc = "describe"
  /\ ec_calls' = Append(ec_calls, "describe")
  /\ \E a \in DescribeAnswers(ec_repo) :
       /\ ec_described' = a
       /\ IF a = "error"
          THEN PushEnds("describe", "exit1")
          ELSE /\ ec_pc' = IF a = "found" THEN "uri" ELSE "create"
               /\ UNCHANGED <<ec_failed_at, ec_result>>
  /\ UNCHANGED <<ec_repo, ec_conflict, ec_pushes>>
  /\ UNCHANGED <<runVars, rbVars, ldVars, rcVars, dcVars, nmVars, xtVars>>

\* Answers of create_repository(repositoryName=repo_name): the registry
\* rejects a name that exists with RepositoryAlreadyExistsException.
CreateAnswers(exists) ==
  IF exists THEN {"already_exists"} ELSE {"created", "error"}

\* `except Exception` around create_repository: every exception, the
\* conflict included, is typer.Exit(code=1).
create_survives(answer) == answer = "created"

\* The create call after an "absent" answer.
CreateRepository ==
  /\ ec_pc = "create"
  /\ ec_calls' = Append(ec_calls, "create")
  /\ \E a \in CreateAnswers(ec_repo) :
       /\ ec_conflict' = (a = "already_exists")
       /\ ec_repo' = (ec_repo \/ a = "created")
       /\ IF create_survives(a)
          THEN /\ ec_pc' = "uri"
               /\ UNCHANGED <<ec_failed_at, ec_result>>
          ELSE PushEnds("create", "exit1")
  /\ UNCHANGED <<ec_described, ec_pushes>>
  /\ UNCHANGED <<runVars, rbVars, ldVars, rcVars, dcVars, nmVars, xtVars>>

\* Another party creates the repository while push_to_ecr is running.
OtherPartyCreates ==
  /\ ec_pc \notin {"idle", "done"}
  /\ ~ec_repo
  /\ ec_repo' = TRUE
  /\ UNCHANGED <<ec_pc, ec_calls, ec_described, ec_conflict, ec_failed_at,
                 ec_result, ec_pushes>>
  /\ UNCHANGED <<runVars, rbVars, ldVars, rcVars, dcVars, nmVars, xtVars>>

\* The second describe_repositories, outside every try, for the URI.
ReadRepositoryUri ==
  /\ ec_pc = "uri"
  /\ ec_calls' = Append(ec_calls, "describe")
  /\ \E a \in DescribeAnswers(ec_repo) :
       IF a = "found"
       THEN /\ ec_pc' = "tag"
            /\ UNCHANGED <<ec_failed_at, ec_result>>
       ELSE PushEnds("uri", "raised")
  /\ UNCHANGED <<ec_repo, ec_described, ec_conflict, ec_pushes>>
  /\ UNCHANGED <<runVars, rbVars, ldVars, rcVars, dcVars, nmVars, xtVars>>

\* docker tag: a non-zero exit is typer.Exit(code=1).
DockerTag ==
  /\ ec_pc = "tag"
  /\ \E ok \in BOOLEAN :
       IF ok
       THEN /\ ec_pc' = "push"
            /\ UNCHANGED <<ec_failed_at, ec_result>>
       ELSE PushEnds("tag", "exit1")
  /\ UNCHANGED <<ec_repo, ec_calls, ec_described, ec_conflict, ec_pushes>>
  /\ UNCHANGED <<runVars, rbVars, ldVars, rcVars, dcVars, nmVars, xtVars>>

\* docker push: a non-zero exit is typer.Exit(code=1), another exception
\* is re-raised, otherwise the image URI is returned.
DockerPush ==
  /\ ec_pc = "push"
  /\ \E o \in {"ok", "exit1", "raised"} : PushEnds("push", o)
  /\ UNCHANGED <<ec_repo, ec_calls, ec_described, ec_conflict, ec_pushes>>
  /\ UNCHANGED <<runVars, rbVars, ldVars, rcVars, dcVars, nmVars, xtVars>>

\* The registry before the first push: with or without the repository.
InitPush ==
  /\ RunIdle
  /\ history_file = MissingFile
  /\ arns = <<1>>
  /\ active_rev = 1
  /\ RollbackIdle
  /\ LedgerIdle
  /\ RemoteIdle
  /\ DestroyIdle
  /\ detected_project_name \in ProjectNames
  /\ ec_pc = "idle"
  /\ ec_repo \in BOOLEAN
  /\ ec_calls = <<>>
  /\ ec_described = "none"
  /\ ec_conflict = FALSE
  /\ ec_failed_at = "none"
  /\ ec_result = "none"
  /\ ec_pushes = 0
  /\ LedgersIdle
  /\ ConcurrentIdle
  /\ BuildIdle

NextPush ==
  \/ PushStart
  \/ CreateEcrClient
  \/ Authenticate
  \/ DescribeRepository
  \/ CreateRepository
  \/ OtherPartyCreates
  \/ ReadRepositoryUri
  \/ DockerTag
  \/ DockerPush

SpecPush == InitPush /\ [][NextPush]_vars

\* ------------------------------------------------ vocabulary of the claims
\* Positions in the log of the attempts of a stage.
AttemptsOf(stage) ==
  {i \in 1..Len(log) : log[i].stage = stage /\ log[i].op = "attempt"}

\* Positions in the log of the failed attempts of a stage.
FailuresOf(stage) == {i \in AttemptsOf(stage) : ~log[i].ok}

\* The stage has an attempt the orchestrator saw succeed.
Succeeded(stage) == \E i \in AttemptsOf(stage) : log[i].ok

\* Number of records the current run has added to the ledger.
Appended == Len(load_history(history_file).items) - history0

\* The run has ended.
RunEnded == pc = "done"

\* ----------------------------------------------------------------- claims

\* C1 (as claimed): a run that ends failed because the apply or the
\* monitoring stage failed on its last allowed attempt leaves that stage's
\* ResourceGroup unprovisioned.
C1_CompensationInvariant ==
  /\ (RunEnded /\ abort_stage = "apply") => appGroup = "absent"
  /\ (RunEnded /\ abort_stage = "monitor") => monGroup = "absent"

\* C2 (as claimed): every run that ends failed has appended exactly one
\* record, with status failure, to the ledger.
C2_FailedRunRecorded ==
  (RunEnded /\ exit_code = 1) =>
    /\ Appended = 1
    /\ LET h == load_history(history_file).items
       IN /\ "status" \in DOMAIN h[Len(h)]
          /\ h[Len(h)].status = "failure"

\* C3: with max_retries = N >= 1 the build is attempted at most N times;
\* push is attempted only after a successful build that was preceded by
\* failures only (k failures, k + 1 attempts, k < N); a successful build
\* moves the run on to push; the run is aborted by the build stage exactly
\* when all N attempts failed, with exit code 1 and no push.
C3_BuildRetry ==
  max_retries >= 1 =>
    /\ Cardinality(AttemptsOf("build")) <= max_retries
    /\ (AttemptsOf("push") /= {} \/ pc = "push") =>
         /\ Succeeded("build")
         /\ Cardinality(AttemptsOf("build"))
              = Cardinality(FailuresOf("build")) + 1
         /\ Cardinality(FailuresOf("build")) < max_retries
    /\ Succeeded("build") => (pc /= "build" /\ abort_stage /= "build")
    /\ abort_stage = "build" =>
         /\ Cardinality(FailuresOf("build")) = max_retries
         /\ Cardinality(AttemptsOf("build")) = max_retries
         /\ exit_code = 1
         /\ AttemptsOf("push") = {}
    /\ Cardinality(FailuresOf("build")) = max_retries =>
         (RunEnded /\ abort_stage = "build")

\* C3 witness: retries = 3, the build failed twice and succeeded on the
\* third attempt, and the run stands at the push stage.
C3_Witness ==
  /\ max_retries = 3
  /\ pc = "push"
  /\ Cardinality(FailuresOf("build")) = 2
  /\ Cardinality(AttemptsOf("build")) = 3

\* C4 (as claimed): whatever the retry count, a stage is attempted only
\* after every earlier stage was attempted and succeeded.
C4_StagesInOrder ==
  \A i \in 1..Len(log) : \A s \in 2..Len(StageOrder) :
    (log[i].op = "attempt" /\ log[i].stage = StageOrder[s]) =>
      \A t \in 1..(s - 1) :
        \E j \in 1..(i - 1) :
          /\ log[j].stage = StageOrder[t]
          /\ log[j].op = "attempt"
          /\ log[j].ok

\* C5 (as claimed): when a retry of an infrastructure stage begins, the
\* stage's ResourceGroup is unprovisioned.
C5_RetryStartsClean ==
  /\ (pc = "apply" /\ attempt > 0) => appGroup = "absent"
  /\ (pc = "monitor_loop" /\ attempt > 0) => monGroup = "absent"

\* C6 (as claimed): fetch and push are retried like every other stage, so
\* either of them aborts the run only after max_retries failed attempts.
C6_EveryStageRetried ==
  /\ abort_stage = "fetch" =>
       Cardinality(FailuresOf("fetch")) >= max_retries
  /\ abort_stage = "push" =>
       Cardinality(FailuresOf("push")) >= max_retries

\* C7 (as claimed): when remote configuration of the monitoring host failed
\* on every attempt of the monitoring stage, the stage was attempted
\* max_retries times and the run ended with a non-zero exit code.
C7_RemoteConfigFailureFailsRun ==
  ( /\ RunEnded
    /\ AttemptsOf("monitor") /= {}
    /\ \A i \in AttemptsOf("monitor") : RemoteConfigFailed(log[i].outcome) )
  => /\ exit_code = 1
     /\ Cardinality(AttemptsOf("monitor")) = max_retries

\* C8 (as claimed): a run appends a record iff all six stages succeeded,
\* at most once, and the record carries image locator, endpoint and
\* monitor host address.
C8_SuccessRecordIffAllStagesOk ==
  RunEnded =>
    /\ Appended \in {0, 1}
    /\ (Appended = 1) <=>
         (\A s \in 1..Len(StageOrder) : Succeeded(StageOrder[s]))
    /\ Appended = 1 =>
         LET h == load_history(history_file).items
             r == h[Len(h)]
         IN /\ Truthy(r.image_uri)
            /\ Truthy(r.public_app_url)
            /\ r.monitor_ec2_ip \notin {"None", "N/A", ""}

\* C9: a rollback that was called with the newest of at least two
\* revisions active does not fail for lack of a previous revision, and
\* when it returns, it returns (newest, second newest) and the second
\* newest revision is the service's active one.
C9_RollbackHappyPath ==
  (Len(arns) >= 2 /\ active0 = arns[1]) =>
    /\ rb_error /= "NoPreviousRevision"
    /\ rb_pc = "returned" =>
         /\ rb_result = <<arns[1], arns[2]>>
         /\ active_rev = arns[2]

\* C9 witness: history [3, 2, 1] with 3 active, rollback has returned.
C9_Witness ==
  /\ arns = <<3, 2, 1>>
  /\ active0 = 3
  /\ rb_pc = "returned"
  /\ rb_result = <<3, 2>>

\* C10: with fewer than two revisions a rollback that got as far as the
\* revision list fails with the no-previous-revision error; it never
\* issues update_service, never starts the stability wait, and the
\* service's active revision stays what it was.
C10_RollbackWithoutHistory ==
  Len(arns) < 2 =>
    /\ rb_pc \notin {"update", "wait", "returned"}
    /\ update_calls = 0
    /\ wait_calls = 0
    /\ active_rev = active0
    /\ rb_result = <<>>
    /\ (rb_pc = "raised" /\ current_task_arn /= 0
          /\ rb_error /= "ApiError") => rb_error = "NoPreviousRevision"

\* C10 witness: history [1] only, rollback raised the no-previous-revision
\* error.
C10_Witness ==
  /\ arns = <<1>>
  /\ rb_pc = "raised"
  /\ rb_error = "NoPreviousRevision"
  /\ active_rev = 1

\* Position of revision v in the revision list a.
PositionOf(a, v) == CHOOSE i \in 1..Len(a) : a[i] = v

\* C11 (as claimed): when the revision that was active at the call has an
\* older revision after it in the list, a rollback that returns has
\* switched the service to that next-older revision, and the returned
\* to_revision is older than the from_revision.
C11_RollbackToPreceding ==
  ( /\ rb_pc = "returned"
    /\ PositionOf(arns, active0) < Len(arns) )
  => /\ rb_result[1] = active0
     /\ rb_result[2] = arns[PositionOf(arns, active0) + 1]
     /\ rb_result[2] < rb_result[1]
     /\ active_rev = rb_result[2]

\* C12: no step of a rollback call, whether the call returns or raises,
\* changes the list of known revisions.
C12_HistoryUnchanged == [][arns' = arns]_vars

\* C12 witness: a rollback over the history [2, 1] has returned and has
\* moved the service's active revision.
C12_Witness ==
  /\ arns = <<2, 1>>
  /\ rb_pc = "returned"
  /\ active_rev /= active0

\* C13: once the waiter has been started (update_service was accepted) the
\* call has returned the pair (current_task_arn, previous_task_arn) without
\* raising, whether the waiter saw the service stable, timed out or failed;
\* a call that raised never got as far as the waiter.
C13_ReturnsDespiteWaitFailure ==
  /\ wait_calls > 0 =>
       /\ rb_pc = "returned"
       /\ wait_outcome \in WaitOutcomes
       /\ rb_error = "none"
       /\ rb_result = <<current_task_arn, previous_task_arn>>
       /\ current_task_arn = active0
       /\ active_rev = previous_task_arn
  /\ rb_pc = "raised" => (wait_calls = 0 /\ rb_result = <<>>)
  /\ rb_pc = "wait" => ENABLED WaitStable

\* C13 witness: the waiter timed out and the call returned the pair.
C13_Witness ==
  /\ rb_pc = "returned"
  /\ wait_outcome = "timeout"
  /\ rb_result = <<3, 2>>

\* s is a prefix of t.
IsPrefix(s, t) == Len(s) <= Len(t) /\ SubSeq(t, 1, Len(s)) = s

\* C14 (as claimed): whatever the ledger file held, after
\* add_deployment_record(project, r), whose write went through,
\* load_history returns the sequence it returned before, followed by r.
C14_LedgerRoundTrip ==
  (ld_op = "append" /\ ~ld_save_failed) =>
    /\ load_history(history_file).is_list
    /\ load_history(history_file).items = Append(ld_before.items, ld_record)

\* C15 (as claimed): whatever the ledger file holds, no command that
\* loads it or appends to it ends in an exception because of what was
\* stored, and what it loaded was a sequence.
C15_LedgerNeverFatal ==
  ld_op /= "none" => (~ld_raised /\ ld_before.is_list)

\* C16 (as claimed): after every CLI command the sequence load_history
\* returns has the sequence it returned before the command as a prefix.
C16_LedgerAppendOnly ==
  ld_op /= "none" =>
    IsPrefix(ld_before.items, load_history(history_file).items)

\* C18 (as claimed): when a run has ended, with success or with failure,
\* none of the temporary directories its provisioning attempts created is
\* left on disk.
C18_TempDirsRemoved == RunEnded => temp_dirs = 0

\* The machine has reached one of its two final states.
RemoteEnded == rc_state \in {"Ready", "Failed"}

\* C17 (as claimed): when provisioning returns, in Ready or in Failed,
\* no SSH session that was established is still open.
C17_SessionReleased == RemoteEnded => ssh_client /= "connected"

\* The connection failures the loop answers by sleeping and trying again.
Retried == {"ssh_error", "other_error"}

\* Connection attempts that ended in a retried failure.
RetriedAttempts ==
  IF ssh_last \in Retried \/ ssh_last = "none"
  THEN ssh_attempts ELSE ssh_attempts - 1

\* C19: an authentication failure ends the machine in Failed with no
\* further connection attempt; every retried failure is followed by a
\* sleep of retry_delay seconds and, below the limit, by another attempt;
\* there are never more than max_ssh_retries attempts, and after that
\* many failures the machine is Failed; commands run on the host only
\* after an attempt succeeded.
C19_Connecting ==
  /\ ssh_attempts <= max_ssh_retries
  /\ ssh_last = "auth" =>
       /\ rc_state = "Failed"
       /\ rc_error.kind = "auth"
       /\ ~ENABLED ConnectAttempt
  /\ ssh_waited = retry_delay * RetriedAttempts
  /\ (ssh_last \in Retried /\ ssh_attempts < max_ssh_retries) =>
       (rc_state = "Connecting" /\ ENABLED ConnectAttempt)
  /\ (ssh_last \in Retried /\ ssh_attempts = max_ssh_retries) =>
       /\ ~ENABLED ConnectAttempt
       /\ \/ rc_state = "Connecting" /\ ENABLED ConnectExhausted
          \/ rc_state = "Failed" /\ rc_error.kind = "exhausted"
  /\ rc_error.kind = "exhausted" => ssh_attempts = max_ssh_retries
  /\ (rc_executed /= <<>> \/ rc_state \in {"Configuring", "Ready"}) =>
       ssh_last = "ok"

\* Two retried failures, then an authentication failure on the third
\* attempt.
C19_Witness ==
  /\ rc_state = "Failed"
  /\ ssh_last = "auth"
  /\ ssh_attempts = 3
  /\ ssh_waited = 2 * retry_delay

ConfiguredServices == {c.service : c \in Consumers}

\* The final path of file action f holds a file: the deployed one, or one
\* put there by an earlier command of the session.
PathHoldsFile(f) ==
  \/ FinalContent(rc_final, f) = "new"
  \/ \E p \in Preinstalled :
       /\ p.file = f
       /\ \E i \in 1..Len(rc_executed) : rc_executed[i] = p.at

\* C21: at every moment of the session a reader of a final path finds the
\* old content or the complete new content; a final path holds the new
\* content exactly when the move of its deploy action has succeeded;
\* while the temporary path is being written, and after a failed write or
\* a failed move, the final path still holds the old content and the
\* machine is Failed.
C21_AtomicFileDeploy ==
  /\ \A a \in FileActions :
       /\ FinalContent(rc_final, a) \in {"old", "new"}
       /\ FinalContent(rc_final, a) = "new" <=> a < rc_action
  /\ rc_temp /= "none" =>
       /\ rc_action \in FileActions
       /\ FinalContent(rc_final, rc_action) = "old"
  /\ rc_error.kind \in {"upload", "move"} =>
       /\ rc_state = "Failed"
       /\ FinalContent(rc_final, rc_error.at[1]) = "old"

\* blackbox.yml is half written to its temporary path while the unit file
\* deployed before it is in place.
C21_Witness ==
  /\ rc_state = "Configuring"
  /\ rc_action = 4
  /\ rc_temp = "partial"
  /\ FinalContent(rc_final, 2) = "new"

\* C26 (as claimed): whenever a start or restart of a service has been
\* run, every file that service reads was already at its final path.
C26_ConfigBeforeStart ==
  \A r \in ServiceOps :
    (rc_last.at = r.at /\ rc_last.exit_status = 0) =>
      \A f \in ConfigFiles(r.service) : PathHoldsFile(f)

\* C27 (as claimed): in Ready every service that reads a deployed file is
\* running and was last (re)started with all of its files in place.
C27_ReadyServicesLoaded ==
  rc_state = "Ready" =>
    \A s \in ConfiguredServices :
      /\ s \in DOMAIN rc_services
      /\ rc_services[s] = ConfigFiles(s)

C28_NoMonitoringWithoutEndpoint ==
  AttemptsOf("monitor") /= {} => Truthy(public_url)

\* C25: a failed attempt of the monitoring stage leaves the application
\* group provisioned, and the compensating destroy of a stage only ever
\* targets the state of that stage's own group.
C25_OnlySameStageCompensation ==
  /\ FailuresOf("monitor") /= {} => appGroup = "provisioned"
  /\ \A c \in tf_calls :
       /\ c.site = "compensate_app" => GroupAt(c.key) = "app"
       /\ c.site = "compensate_monitor" => GroupAt(c.key) = "mon"

\* The monitoring stage was compensated on every attempt and the run
\* aborted there, with the application group still standing.
C25_Witness ==
  /\ pc = "done"
  /\ abort_stage = "monitor"
  /\ \E i \in DOMAIN log : log[i].stage = "monitor" /\ log[i].op = "destroy"
  /\ \E c \in tf_calls : c.site = "compensate_monitor"
  /\ appGroup = "provisioned"

\* ------------------------------------------------- state keys and destroy
\* The group a call site acts on.
SiteGroup(site) ==
  IF site \in {"apply", "compensate_app", "destroy_app"} THEN "app" ELSE "mon"

\* The fixed suffix of a group.
GroupSuffix(g) == IF g = "app" THEN "ecs-app.tfstate" ELSE "ec2-monitor.tfstate"

\* C23 (as claimed): every apply and destroy made for a project carries
\* the fixed suffix of its group, two calls made for the same project and
\* the same group select the same state key, and a compensating destroy
\* selects the key its own stage applied under.
C23_DeterministicStateKey ==
  /\ \A c \in tf_calls : c.key[2] = GroupSuffix(SiteGroup(c.site))
  /\ \A c, d \in tf_calls :
       (c.project = d.project /\ SiteGroup(c.site) = SiteGroup(d.site))
         => c.key = d.key
  /\ \A c \in tf_calls :
       c.site \in {"compensate_app", "compensate_monitor"}
         => GroupAt(c.key) = SiteGroup(c.site)

\* The state keys a `rollback` command with these arguments is to destroy.
TargetedKeys(args) ==
  {<<args.project, GroupSuffix(g)>> :
     g \in IF args.target = "all" THEN {"app", "mon"}
           ELSE IF args.target = "ecs-app" THEN {"app"}
           ELSE IF args.target = "ec2-monitor" THEN {"mon"} ELSE {}}

C24_DestroyRecorded ==
  ld_op = "destroy" =>
    Len(load_history(history_file).items) = Len(ld_before.items) + 1

\* ------------------------------------------------------ registry claims
\* C30 (as claimed): create_repository is called only right after an
\* existence check answered "absent", and an invocation never ends in an
\* error because the repository already exists.
C30_CreateIfAbsent ==
  /\ \A i \in DOMAIN ec_calls :
       ec_calls[i] = "create" =>
         /\ i = 2
         /\ ec_calls[1] = "describe"
         /\ ec_described = "absent"
  /\ ec_conflict => ec_failed_at /= "create"

\* The destroy calls of the last `rollback` command.
CommandSites == {c.site : c \in tf_calls \ RunCalls(tf_calls)}

\* C32: the last `rollback` command called the monitoring destroy iff its
\* target is all or ec2-monitor, and the application destroy only if its
\* target is all or ecs-app; the application destroy was left out only
\* when the monitoring destroy before it failed, and then the command
\* exited with 1; when both were called the monitoring destroy had
\* already succeeded; any other target destroys nothing and exits 0.
C32_DestroyTargetsInOrder ==
  dc_count > 0 =>
    LET target == dc_args.target
        mon_key == <<dc_args.project, "ec2-monitor.tfstate">>
    IN /\ "destroy_monitor" \in CommandSites
            <=> target \in {"all", "ec2-monitor"}
       /\ "destroy_app" \in CommandSites => target \in {"all", "ecs-app"}
       /\ (target \in {"all", "ecs-app"} /\ "destroy_app" \notin CommandSites)
            => (target = "all" /\ dc_exit = 1 /\ appGroup = dc_before[1])
       /\ CommandSites = {"destroy_monitor", "destroy_app"}
            => GroupState(mon_key, appGroup, monGroup) = "absent"
       /\ target \notin {"all", "ecs-app", "ec2-monitor"}
            => /\ CommandSites = {}
               /\ <<appGroup, monGroup>> = dc_before
               /\ dc_exit = 0

\* `rollback --target all` of the deployed project: the monitoring destroy
\* stopped half way, the command exited with 1 and the application group,
\* never touched, still stands.
C32_Witness ==
  /\ dc_count > 0
  /\ dc_args = [project |-> safe_name, target |-> "all"]
  /\ dc_before = <<"provisioned", "provisioned">>
  /\ monGroup = "partial"
  /\ appGroup = "provisioned"
  /\ dc_exit = 1
  /\ CommandSites = {"destroy_monitor"}

\* --------------------------------------------------------- termination
\* C31: the build, apply and monitoring loops each make at most
\* max_retries attempts, a provisioning attempt makes at most 10
\* connection attempts, and a run that has started ends.
C31_Termination ==
  /\ [](/\ Cardinality(AttemptsOf("build")) <= max_retries
        /\ Cardinality(AttemptsOf("apply")) <= max_retries
        /\ Cardinality(AttemptsOf("monitor")) <= max_retries
        /\ ssh_attempts <= 10)
  /\ (pc \notin {"idle", "done"}) ~> (pc = "done")

\* A run ended after every loop used all its attempts: the last
\* provisioning attempt made ten connection attempts in vain.
C31_Witness ==
  /\ pc = "done"
  /\ max_retries >= 2
  /\ Cardinality(AttemptsOf("monitor")) = max_retries
  /\ Cardinality(AttemptsOf("apply")) = max_retries
  /\ ssh_attempts = 10
  /\ rc_error.kind = "exhausted"

\* ------------------------------------------------- ledgers are separate
\* C34: after add_deployment_record(p, r) or load_history(p), load_history
\* returns for every other project what it returned before.
C34_LedgersIsolated ==
  \A q \in LedgerProjects :
    q /= lg_op.project =>
      load_history(lg_files[history_file_path(q)]) = lg_before[q]

\* A record was appended to the ledger of one project while another
\* project, whose name differs only in case and underscore, had a record.
C34_Witness ==
  /\ lg_op.op = "append"
  /\ Len(lg_files[history_file_path(lg_op.project)].records)
       = Len(lg_before[lg_op.project].items) + 1
  /\ \E q \in LedgerProjects :
       /\ q /= lg_op.project
       /\ SafeNameOf(q) = SafeNameOf(lg_op.project)
       /\ Len(lg_before[q].items) = 1

\* ------------------------------------------------------ the source tree
\* C35 (as claimed): when build_docker_image has ended, the Dockerfile of
\* the build root is what it was before the call: absent if it was
\* absent, and the same file if there was one.
C35_SourceTreeRestored ==
  bd_pc = "done" => bd_dockerfile = bd_before

\* ------------------------------------------------- two concurrent runs
\* C33 (as claimed): the terraform plan and the terraform apply of each
\* of two concurrent runs for different projects read that project's own
\* variables and work on that project's own state key.
C33_ConcurrentRunsIsolated ==
  \A proc \in Procs :
    /\ cc_planned[proc] /= NoUse => cc_planned[proc] = OwnUse(proc)
    /\ cc_applied[proc] /= NoUse => cc_applied[proc] = OwnUse(proc)
====
